---- MODULE Spec2Model ----
(***************************************************************************)
(* Snapshot update / supplement engine of deepresearch_flow.paper.snapshot *)
(* (update.py, supplement.py, image_utils.py).                             *)
(*                                                                         *)
(* A snapshot is a catalog database (tables paper, paper_key_alias,        *)
(* paper_summary, paper_translation) plus a static export directory        *)
(* (md/, pdf/, md_translate/<lang>/, images/, summary/).  Two snapshot     *)
(* locations are modelled so that a pass can run in place or copy the      *)
(* source snapshot to a separate output.  A pass is a sequence of steps:   *)
(* start (option handling, backup or copy), one step per input record,     *)
(* and the final commit; the SQLite connection's uncommitted tables are    *)
(* the variable conn.                                                      *)
(*                                                                         *)
(* Hashes, contents, keys and paper ids are natural numbers (0 = absent).  *)
(***************************************************************************)
EXTENDS Integers, Sequences, FiniteSets, TLC

VARIABLES
    db,        \* db[loc]: the snapshot database file at a location (committed tables)
    static,    \* static[loc]: the static export directory at a location
    pc,        \* "idle", "update" (inside update_snapshot's loop), "supplement"
    conn,      \* the tables as seen through the open connection (uncommitted)
    outDb,     \* location of output_db of the running pass
    outStatic, \* location of output_static of the running pass
    srcDb,     \* location of opts.snapshot_db of the running pass
    written,   \* supplement_snapshot's written_images set
    nrec,      \* input records processed so far, over all passes
    looped,    \* whether the running pass has processed a record of its batch
    passes,    \* passes started so far
    shared,    \* the committed tables of a database two update passes run on in place
    writers,   \* writers[w]: one of these passes, at the record it processes
    lock,      \* the writer whose transaction holds the write lock of shared (0: none)
    call,      \* a call of one of the functions that are modelled as operators
    ret        \* what the call has returned

passVars == <<db, static, pc, conn, outDb, outStatic, srcDb, written, nrec, looped, passes>>

writerVars == <<shared, writers, lock>>

callVars == <<call, ret>>

vars == <<passVars, writerVars, callVars>>

(***************************************************************************)
(* Bounds of the model.                                                    *)
(***************************************************************************)
MaxPasses == 2
MaxRecords == 2

\* The longer runs: three passes over two records, two passes over three.
ManyPasses == 3
ManyRecords == 3

Locs == {1, 2}

Max(S) == CHOOSE x \in S : \A y \in S : y <= x

Min(S) == CHOOSE x \in S : \A y \in S : x <= y

(***************************************************************************)
(* Content hashing.  SHA-256 is modelled by an injective digest on the     *)
(* small content domain.                                                   *)
(***************************************************************************)
HashBytes(data) == IF data = 0 THEN 0 ELSE ((data * 37 + 11) % 101) + 1

(***************************************************************************)
(* Input records.  A work is the bibliographic part of a record: its       *)
(* normalized title (an id), the first 16 characters of the compact title  *)
(* (pre), whether the title has >= 4 tokens and >= 16 compact characters   *)
(* (long), and the "<year>:<first-author>" pair (ya; 0 when the year is    *)
(* not a 4-digit string).  Works 1 and 2 are distinct long titles that     *)
(* share their 16-character prefix and their year/author; work 3 is a      *)
(* short title without a usable year.  body stands for the rest of the     *)
(* record (summary text and the like): the part of its JSON text that the  *)
(* identity fields do not determine.                                       *)
(***************************************************************************)
Works ==
    { [title |-> 1, pre |-> 1, long |-> TRUE,  ya |-> 1],
      [title |-> 2, pre |-> 1, long |-> TRUE,  ya |-> 1],
      [title |-> 3, pre |-> 3, long |-> FALSE, ya |-> 0] }

TemplateTags == {"", "Deep Read"}

\* Records that differ in their identity fields and carry no source hash:
\* works 1 and 3 with and without a DOI and a BibTeX key, work 2 without,
\* and work 3 under an id of its own.
IdentityRecords ==
    { r \in [ paper_id : {0, 7}, doi : {0, 1}, bib : {0, 1}, work : Works,
              source_hash : {0}, prompt_template : {"Deep Read"}, body : {1} ] :
        /\ r.paper_id # 0 => (r.doi = 0 /\ r.bib = 0 /\ r.work.title = 3)
        /\ r.work.title = 2 => (r.doi = 0 /\ r.bib = 0) }

\* Records of plain identity that carry a source hash, so that files are
\* looked up for them.
BlobRecords ==
    [ paper_id : {0}, doi : {0}, bib : {0}, work : {w \in Works : w.title # 2},
      source_hash : {5}, prompt_template : {""}, body : {1} ]

\* Records of one work that differ in template tag and body.
TemplateRecords ==
    [ paper_id : {0}, doi : {0}, bib : {0}, work : {w \in Works : w.title = 1},
      source_hash : {5}, prompt_template : TemplateTags, body : {1, 2} ]

Records == IdentityRecords \cup BlobRecords \cup TemplateRecords

(***************************************************************************)
(* Candidate keys (identity.py).                                           *)
(***************************************************************************)
Cand(type, val, fp) == [paper_key |-> <<type, val>>, key_type |-> type, meta_fingerprint |-> fp]

SeqIf(cond, s) == IF cond THEN s ELSE <<>>

\* build_paper_key_candidates: most authoritative first; nothing is emitted
\* from an empty value.
BuildPaperKeyCandidates(paper) ==
    LET w == paper.work IN
       SeqIf(paper.doi # 0, << Cand("doi", paper.doi, 0) >>)
    \o SeqIf(paper.bib # 0, << Cand("bibtex", paper.bib, 0) >>)
    \o SeqIf(w.title # 0, << Cand("meta", w.title, w.title * 10 + w.ya) >>)
    \o SeqIf(w.title # 0, << Cand("title_compact", w.title, 0) >>)
    \o SeqIf(w.title # 0 /\ w.long, << Cand("title_prefix", w.pre, 0) >>)
    \o SeqIf(w.ya # 0, << Cand("year_author", w.ya, 0) >>)

\* choose_preferred_key: the most authoritative candidate.
ChoosePreferredKey(candidates) == candidates[1]

KeyTypeNo(t) ==
    CASE t = "doi" -> 1 [] t = "bibtex" -> 2 [] t = "meta" -> 3
      [] t = "title_compact" -> 4 [] t = "title_prefix" -> 5 [] OTHER -> 6

\* paper_id_for_key: an id derived from the key alone (injective digest).
PaperIdForKey(paper_key) == 100 + 10 * KeyTypeNo(paper_key[1]) + paper_key[2]

(***************************************************************************)
(* Tables.                                                                 *)
(***************************************************************************)
EmptyTables == [exists |-> TRUE, paper |-> {}, alias |-> {}, summary |-> {}, translation |-> {}]
NoTables == [exists |-> FALSE, paper |-> {}, alias |-> {}, summary |-> {}, translation |-> {}]

EmptyDir == [exists |-> TRUE, md |-> {}, pdf |-> {}, md_translate |-> {}, images |-> {}, summary |-> {}]
NoDir == [exists |-> FALSE, md |-> {}, pdf |-> {}, md_translate |-> {}, images |-> {}, summary |-> {}]

\* paper_key is the key of paper_key_alias: INSERT OR REPLACE drops the row
\* that holds the key, whatever paper it points at.
InsertOrReplaceAlias(alias, paper_key, paper_id) ==
    {a \in alias : a.paper_key # paper_key} \cup {[paper_key |-> paper_key, paper_id |-> paper_id]}

\* (paper_id, lang) is the key of paper_translation.
InsertOrReplaceTranslation(translation, paper_id, lang, hash) ==
    {t \in translation : ~(t.paper_id = paper_id /\ t.lang = lang)}
        \cup {[paper_id |-> paper_id, lang |-> lang, md_content_hash |-> hash]}

(***************************************************************************)
(* Static export directory.  A subdirectory exists exactly when it holds a *)
(* file: the passes create a subdirectory only on the way to a file they   *)
(* write or find there.                                                    *)
(***************************************************************************)

\* Variant: the destination is named by a running number.
PutBlobNumbered(files, data) ==
    files \cup {[name |-> Cardinality(files) + 1, data |-> data]}

\* The content-addressed put used for md/ and pdf/: the destination is named
\* by the hash of the source file and is copied only when it does not exist.
PutBlob(files, data) ==
    LET h == HashBytes(data) IN
    IF \E f \in files : f.name = h
    THEN files
    ELSE files \cup {[name |-> h, data |-> data]}

\* Variant: the translated file is put below md_translate/ itself.
PutTranslatedBlobFlat(files, lang, data) ==
    LET h == HashBytes(data) IN
    IF \E f \in files : f.lang = "" /\ f.name = h
    THEN files
    ELSE files \cup {[lang |-> "", name |-> h, data |-> data]}

\* The same put below md_translate/<lang>/.
PutTranslatedBlob(files, lang, data) ==
    LET h == HashBytes(data) IN
    IF \E f \in files : f.lang = lang /\ f.name = h
    THEN files
    ELSE files \cup {[lang |-> lang, name |-> h, data |-> data]}

\* Path.write_text on summary/<paper_id>/<template_tag>.json: creates or overwrites.
WriteSummaryFile(files, paper_id, tag, data) ==
    {f \in files : ~(f.paper_id = paper_id /\ f.tag = tag)}
        \cup {[paper_id |-> paper_id, tag |-> tag, data |-> data]}

\* json.dumps of a record, as far as the files of the model tell records apart.
JsonText(paper) == paper.body

\* The file summary/<paper_id>.json is kept in the same set under this tag.
PaperJson == "<paper_id>.json"

\* _copy_snapshot's static part: each subdirectory that exists in the source
\* replaces the destination's (rmtree, then copytree); a destination
\* subdirectory the source does not have is left as it is.
CopySubdir(src, dst) == IF src # {} THEN src ELSE dst

CopyStatic(src, dst) ==
    [ exists       |-> TRUE,
      md           |-> CopySubdir(src.md, dst.md),
      pdf          |-> CopySubdir(src.pdf, dst.pdf),
      md_translate |-> CopySubdir(src.md_translate, dst.md_translate),
      images       |-> CopySubdir(src.images, dst.images),
      summary      |-> CopySubdir(src.summary, dst.summary) ]

(***************************************************************************)
(* update.py                                                               *)
(***************************************************************************)

\* _canonical_template_tag on the tags of the model.
CanonicalTemplateTag(value) ==
    CASE value = "" -> "default"
      [] value = "Deep Read" -> "deep_read"
      [] OTHER -> value

\* _paper_source_hash (records of the model carry no source_path).
PaperSourceHash(paper) == paper.source_hash

AliasRows(alias, paper_key) == {a \in alias : a.paper_key = paper_key}

\* Variant: the last candidate whose key has an alias row.
LastAliasHit(alias, candidates) ==
    LET hits == {i \in 1..Len(candidates) : AliasRows(alias, candidates[i].paper_key) # {}}
    IN IF hits = {} THEN 0 ELSE Max(hits)

\* Index of the first candidate whose key has an alias row, 0 when none has.
FirstAliasHit(alias, candidates) ==
    LET hits == {i \in 1..Len(candidates) : AliasRows(alias, candidates[i].paper_key) # {}}
    IN IF hits = {} THEN 0 ELSE Min(hits)

\* Variant: the id is allocated from the record without a look at the registry.
ResolveWithoutAlias(alias, paper) ==
    LET candidates == BuildPaperKeyCandidates(paper)
        preferred == ChoosePreferredKey(candidates)
    IN [ paper_id  |-> IF paper.paper_id # 0 THEN paper.paper_id
                       ELSE PaperIdForKey(preferred.paper_key),
         paper_key |-> preferred.paper_key,
         candidates |-> candidates ]

\* Variant: the id the record carries is taken before the registry is looked at.
ResolveExplicitFirst(alias, paper) ==
    LET candidates == BuildPaperKeyCandidates(paper)
        hit == FirstAliasHit(alias, candidates)
        preferred == ChoosePreferredKey(candidates)
    IN IF paper.paper_id # 0
       THEN [ paper_id |-> paper.paper_id, paper_key |-> preferred.paper_key,
              candidates |-> candidates ]
       ELSE IF hit # 0
       THEN [ paper_id  |-> (CHOOSE a \in AliasRows(alias, candidates[hit].paper_key) : TRUE).paper_id,
              paper_key |-> candidates[hit].paper_key,
              candidates |-> candidates ]
       ELSE [ paper_id  |-> PaperIdForKey(preferred.paper_key),
              paper_key |-> preferred.paper_key,
              candidates |-> candidates ]

\* _resolve_paper_identity
ResolvePaperIdentity(alias, paper) ==
    LET candidates == BuildPaperKeyCandidates(paper)
        hit == FirstAliasHit(alias, candidates)
    IN IF hit # 0
       THEN [ paper_id  |-> (CHOOSE a \in AliasRows(alias, candidates[hit].paper_key) : TRUE).paper_id,
              paper_key |-> candidates[hit].paper_key,
              candidates |-> candidates ]
       ELSE LET preferred == ChoosePreferredKey(candidates) IN
            [ paper_id  |-> IF paper.paper_id # 0 THEN paper.paper_id
                            ELSE PaperIdForKey(preferred.paper_key),
              paper_key |-> preferred.paper_key,
              candidates |-> candidates ]

\* Variant: the registry is rebuilt from the keys of the paper being added.
RegisterAliasesFresh(alias, candidates, paper_id) ==
    { [paper_key |-> candidates[i].paper_key, paper_id |-> paper_id] : i \in 1..Len(candidates) }

RECURSIVE RegisterAliases(_, _, _)
\* _add_new_paper's loop over the candidates.
RegisterAliases(alias, candidates, paper_id) ==
    IF candidates = <<>> THEN alias
    ELSE RegisterAliases(InsertOrReplaceAlias(alias, Head(candidates).paper_key, paper_id),
                         Tail(candidates), paper_id)

RECURSIVE InsertTranslations(_, _, _)
\* _add_new_paper's rows for the translated files of the record.
InsertTranslations(translation, paper_id, translated) ==
    IF translated = {} THEN translation
    ELSE LET t == CHOOSE u \in translated : TRUE IN
         InsertTranslations(
             InsertOrReplaceTranslation(translation, paper_id, t.lang, HashBytes(t.data)),
             paper_id, translated \ {t})

RECURSIVE PutTranslations(_, _)
\* _add_new_paper's copies of the translated files of the record.
PutTranslations(files, translated) ==
    IF translated = {} THEN files
    ELSE LET t == CHOOSE u \in translated : TRUE IN
         PutTranslations(PutTranslatedBlob(files, t.lang, t.data), translated \ {t})

\* Variant: no paper is ever found.
PaperExistsNever(c, paper_id) == FALSE

\* update_snapshot's SELECT 1 FROM paper WHERE paper_id = ?
PaperExists(c, paper_id) == \E p \in c.paper : p.paper_id = paper_id

\* _add_new_paper.  md and pdf are the contents of the files found for the
\* record (0: no file), translated the set of [lang, data] found for it.
AddNewPaper(c, st, paper, source_hash, paper_id, paper_key, candidates, md, pdf, translated) ==
    LET source_md_hash == HashBytes(md)
        pdf_hash == HashBytes(pdf)
        template_tag == CanonicalTemplateTag(paper.prompt_template)
        row == [ paper_id |-> paper_id, paper_key |-> paper_key, source_hash |-> source_hash,
                 pdf_content_hash |-> pdf_hash, source_md_content_hash |-> source_md_hash ]
    IN
    [ conn |->
        [ c EXCEPT
            !.paper = @ \cup {row},
            !.alias = RegisterAliases(@, candidates, paper_id),
            !.summary = @ \cup {[paper_id |-> paper_id, template_tag |-> template_tag]},
            !.translation = InsertTranslations(@, paper_id, translated) ],
      static |->
        [ st EXCEPT
            !.md = IF md # 0 THEN PutBlob(@, md) ELSE @,
            !.pdf = IF pdf # 0 THEN PutBlob(@, pdf) ELSE @,
            !.summary = WriteSummaryFile(WriteSummaryFile(@, paper_id, template_tag, JsonText(paper)),
                                         paper_id, PaperJson, JsonText(paper)),
            !.md_translate = PutTranslations(@, translated) ] ]

(***************************************************************************)
(* image_utils.py                                                          *)
(***************************************************************************)

\* The bytes of the base64 image a translated markdown embeds (0: none).
\* Content 4 embeds image 9; the other contents embed nothing.
EmbeddedImage(markdown) == IF markdown = 4 THEN 9 ELSE 0

\* rewrite_markdown_images' returned text: the data URL is replaced by
\* images/<hash>.<ext>, so the text changes exactly when an image is embedded.
RewrittenMarkdown(markdown) == IF EmbeddedImage(markdown) # 0 THEN markdown + 20 ELSE markdown

\* rewrite_markdown_images.store_bytes on the images directory and the
\* written set.
StoreBytes(images, wr, data) ==
    LET filename == HashBytes(data) IN
    IF filename \in wr
    THEN [images |-> images, written |-> wr]
    ELSE [ images  |-> IF \E f \in images : f.name = filename
                       THEN images
                       ELSE images \cup {[name |-> filename, data |-> data]},
           written |-> wr \cup {filename} ]

\* rewrite_markdown_images
RewriteMarkdownImages(images, wr, markdown) ==
    LET img == EmbeddedImage(markdown)
        stored == IF img # 0 THEN StoreBytes(images, wr, img)
                  ELSE [images |-> images, written |-> wr]
    IN [ text |-> RewrittenMarkdown(markdown), images |-> stored.images, written |-> stored.written ]

(***************************************************************************)
(* supplement.py                                                           *)
(***************************************************************************)

\* Variant: an explicit paper_id is taken without a look at the paper table.
ResolveTrustingExplicitId(c, paper) ==
    LET candidates == BuildPaperKeyCandidates(paper)
        by_alias == {a.paper_id : a \in {b \in c.alias :
                        \E i \in 1..Len(candidates) : candidates[i].paper_key = b.paper_key}}
    IN IF paper.paper_id # 0 THEN {paper.paper_id} ELSE by_alias

\* Variant: the record's hash is looked up in paper.source_hash only.
ResolveBySourceHashOnly(c, paper) ==
    LET by_source == {p.paper_id : p \in {q \in c.paper : q.source_hash = paper.source_hash}}
        candidates == BuildPaperKeyCandidates(paper)
        by_alias == {a.paper_id : a \in {b \in c.alias :
                        \E i \in 1..Len(candidates) : candidates[i].paper_key = b.paper_key}}
    IN IF paper.paper_id # 0 /\ \E p \in c.paper : p.paper_id = paper.paper_id
       THEN {paper.paper_id}
       ELSE IF paper.source_hash # 0 /\ by_source # {} THEN by_source
       ELSE by_alias

\* _resolve_existing_paper_ids (records of the model carry no source_path).
ResolveExistingPaperIds(c, paper) ==
    LET by_source == {p.paper_id : p \in {q \in c.paper : q.source_hash = paper.source_hash}}
        by_md == {p.paper_id : p \in {q \in c.paper : q.source_md_content_hash = paper.source_hash}}
        candidates == BuildPaperKeyCandidates(paper)
        by_alias == {a.paper_id : a \in {b \in c.alias :
                        \E i \in 1..Len(candidates) : candidates[i].paper_key = b.paper_key}}
    IN IF paper.paper_id # 0 /\ \E p \in c.paper : p.paper_id = paper.paper_id
       THEN {paper.paper_id}
       ELSE IF paper.source_hash # 0 /\ by_source # {} THEN by_source
       ELSE IF paper.source_hash # 0 /\ by_md # {} THEN by_md
       ELSE by_alias

\* The template tag _supplement_templates files the record under.
SupplementTemplateTag(paper) ==
    IF paper.prompt_template # "" THEN paper.prompt_template ELSE "default"

\* Variant: the summary is written without a look at the existing rows.
SupplementTemplatesAlways(c, st, paper_id, paper) ==
    LET template_tag == SupplementTemplateTag(paper)
    IN [ conn |-> [c EXCEPT !.summary = @ \cup {[paper_id |-> paper_id, template_tag |-> template_tag]}],
         static |-> [st EXCEPT !.summary = WriteSummaryFile(@, paper_id, template_tag, JsonText(paper))] ]

\* _supplement_templates
SupplementTemplates(c, st, paper_id, paper) ==
    LET template_tag == SupplementTemplateTag(paper)
        existing == \E s \in c.summary : s.paper_id = paper_id /\ s.template_tag = template_tag
    IN IF existing
       THEN [conn |-> c, static |-> st]
       ELSE [ conn |-> [c EXCEPT !.summary = @ \cup {[paper_id |-> paper_id, template_tag |-> template_tag]}],
              static |-> [st EXCEPT !.summary = WriteSummaryFile(@, paper_id, template_tag, JsonText(paper))] ]

RECURSIVE SupplementTranslations(_, _, _, _, _, _)
\* _supplement_translations.  found lists, in the order the translated roots
\* and their language directories are walked, the first file of each
\* language directory that matches the record: [lang, data].
SupplementTranslations(c, st, wr, paper_id, paper, found) ==
    IF paper.source_hash = 0 \/ found = <<>>
    THEN [conn |-> c, static |-> st, written |-> wr]
    ELSE
      LET f == Head(found)
          existing == \E t \in c.translation : t.paper_id = paper_id /\ t.lang = f.lang
      IN IF existing
         THEN SupplementTranslations(c, st, wr, paper_id, paper, Tail(found))
         ELSE
           LET rw == RewriteMarkdownImages(st.images, wr, f.data)
               md_hash == HashBytes(rw.text)
               c2 == [c EXCEPT !.translation = InsertOrReplaceTranslation(@, paper_id, f.lang, md_hash)]
               st2 == [st EXCEPT !.images = rw.images,
                                 !.md_translate = PutTranslatedBlob(@, f.lang, rw.text)]
           IN SupplementTranslations(c2, st2, rw.written, paper_id, paper, Tail(found))

\* Variant: only the first of the paper ids is supplemented.
SupplementFirstPaper(c, st, wr, paper_ids, paper, found) ==
    IF paper_ids = {} THEN [conn |-> c, static |-> st, written |-> wr]
    ELSE
      LET paper_id == Min(paper_ids)
          t == SupplementTemplates(c, st, paper_id, paper)
      IN SupplementTranslations(t.conn, t.static, wr, paper_id, paper, found)

RECURSIVE SupplementPapers(_, _, _, _, _, _)
\* supplement_snapshot's loop over the paper ids one record resolves to.
SupplementPapers(c, st, wr, paper_ids, paper, found) ==
    IF paper_ids = {} THEN [conn |-> c, static |-> st, written |-> wr]
    ELSE
      LET paper_id == Min(paper_ids)
          t == SupplementTemplates(c, st, paper_id, paper)
          r == SupplementTranslations(t.conn, t.static, wr, paper_id, paper, found)
      IN SupplementPapers(r.conn, r.static, r.written, paper_ids \ {paper_id}, paper, found)

(***************************************************************************)
(* Inputs found on disk for a record.                                      *)
(***************************************************************************)
Langs == {"zh"}
MdContents == {1, 2}
PdfContents == {1}
TranslatedContents == {3, 4}

\* What build_index finds for a record's source hash: the source markdown,
\* the PDF and the translated markdown per language.  It looks the
\* translations up under the name of the source markdown: without that file
\* it finds none.
UpdateAssets ==
    { a \in [ md : {0} \cup MdContents, pdf : {0} \cup PdfContents,
              translated : {{}} \cup {{[lang |-> l, data |-> 3]} : l \in Langs} ] :
        a.md = 0 => a.translated = {} }

NoAssets == {[md |-> 0, pdf |-> 0, translated |-> {}]}

\* The same with a PDF only next to markdown 1 without translations.
BlobAssets == {a \in UpdateAssets : a.pdf # 0 => (a.md = 1 /\ a.translated = {})}

\* The same without a PDF and with one markdown content.
FewAssets == {a \in UpdateAssets : a.pdf = 0 /\ a.md # 2}

\* What _supplement_translations finds for a record below the translated roots.
SupplementFound ==
    {<<>>} \cup {<<[lang |-> l, data |-> d]>> : l \in Langs, d \in TranslatedContents}
           \cup { s \in {<<[lang |-> l, data |-> d], [lang |-> l, data |-> e]>> :
                          l \in Langs, d \in TranslatedContents, e \in TranslatedContents} :
                    s[1].data # s[2].data }

NoFound == {<<>>}

(***************************************************************************)
(* Calls of functions.                                                     *)
(***************************************************************************)
\* No function is called.
NoCall ==
    /\ call = [fn |-> "none"]
    /\ ret = [done |-> FALSE]

\* The function fn has not returned yet.
Pending(fn) == call.fn = fn /\ ~ret.done

\* The function fn has returned.
Returned(fn) == call.fn = fn /\ ret.done

(***************************************************************************)
(* Two update passes that run at the same time, in place, on one database. *)
(* Each has a connection of its own; sqlite3 gives a connection the write  *)
(* lock at its first INSERT and keeps it until commit or rollback, and a   *)
(* SELECT outside a transaction reads the committed tables.                *)
(***************************************************************************)
Writers == {1, 2}

\* No pass runs on the shared database.
NoWriters ==
    /\ shared = EmptyTables
    /\ writers = [w \in Writers |-> [pc |-> "done", paper |-> 0, paper_id |-> 0, tx |-> NoTables]]
    /\ lock = 0

\* The tables a writer's connection sees.
ViewOf(w) == IF lock = w THEN writers[w].tx ELSE shared

\* update_snapshot's identity resolution and existence check for the record.
WProbe(w) ==
    LET r == ResolvePaperIdentity(ViewOf(w).alias, writers[w].paper)
    IN /\ writers[w].pc = "probe"
       /\ writers' = [writers EXCEPT ![w].paper_id = r.paper_id,
                                     ![w].pc = IF PaperExists(ViewOf(w), r.paper_id)
                                               THEN "commit" ELSE "insert"]
       /\ UNCHANGED <<shared, lock>>

\* _add_new_paper: the first INSERT takes the write lock; INSERT INTO paper
\* raises IntegrityError when a paper of that id is there by now, and the
\* finally clause closes the connection.
WInsert(w) ==
    LET paper == writers[w].paper
        r == ResolvePaperIdentity({}, paper)
        added == AddNewPaper(ViewOf(w), EmptyDir, paper, PaperSourceHash(paper), writers[w].paper_id,
                             r.paper_key, r.candidates, 0, 0, {})
    IN /\ writers[w].pc = "insert"
       /\ lock \in {0, w}
       /\ IF PaperExists(ViewOf(w), writers[w].paper_id)
          THEN /\ writers' = [writers EXCEPT ![w].pc = "failed", ![w].tx = NoTables]
               /\ lock' = 0
          ELSE /\ writers' = [writers EXCEPT ![w].pc = "commit", ![w].tx = added.conn]
               /\ lock' = w
       /\ UNCHANGED shared

\* The INSERT finds the write lock held until the busy timeout ends:
\* OperationalError, and the finally clause closes the connection.
WLocked(w) ==
    /\ writers[w].pc = "insert"
    /\ lock \notin {0, w}
    /\ writers' = [writers EXCEPT ![w].pc = "failed"]
    /\ UNCHANGED <<shared, lock>>

\* conn.commit() at the end of the pass.
WCommit(w) ==
    /\ writers[w].pc = "commit"
    /\ shared' = ViewOf(w)
    /\ lock' = IF lock = w THEN 0 ELSE lock
    /\ writers' = [writers EXCEPT ![w].pc = "done", ![w].tx = NoTables]

(***************************************************************************)
(* State machine.                                                          *)
(***************************************************************************)
Init ==
    /\ db = [l \in Locs |-> IF l = 1 THEN EmptyTables ELSE NoTables]
    /\ static = [l \in Locs |-> IF l = 1 THEN EmptyDir ELSE NoDir]
    /\ pc = "idle"
    /\ conn = NoTables
    /\ outDb = 1
    /\ outStatic = 1
    /\ srcDb = 1
    /\ written = {}
    /\ nrec = 0
    /\ looped = FALSE
    /\ passes = 0
    /\ NoWriters
    /\ NoCall

\* The pass ends before its loop: an exception of the option handling, or the
\* early return on an empty input.
EndEarly ==
    /\ pc' = "idle"
    /\ UNCHANGED <<conn, outDb, outStatic, srcDb, written, nrec, looped>>

\* The pass enters its loop over the input records.
EnterLoop(kind, src, odb, ostatic) ==
    /\ pc' = kind
    /\ conn' = db'[odb]
    /\ outDb' = odb
    /\ outStatic' = ostatic
    /\ srcDb' = src
    /\ written' = {}
    /\ looped' = FALSE
    /\ UNCHANGED nrec

\* update_snapshot / supplement_snapshot up to the loop: validation, output
\* paths, backup or _copy_snapshot, loading of the input.
StartPass(kind, src, in_place, output_db, output_static_dir, has_papers) ==
    /\ pc = "idle"
    /\ passes' = passes + 1
    /\ IF ~db[src].exists \/ ~static[src].exists
       THEN /\ UNCHANGED <<db, static>>
            /\ EndEarly
       ELSE IF in_place
       THEN \* the copy <snapshot>.db.backup is a file no pass reads: not kept
            /\ UNCHANGED <<db, static>>
            /\ IF has_papers THEN EnterLoop(kind, src, src, src) ELSE EndEarly
       ELSE IF output_db = 0
       THEN /\ UNCHANGED <<db, static>>
            /\ EndEarly
       ELSE IF kind = "supplement" /\ output_static_dir = 0
       THEN /\ UNCHANGED <<db, static>>
            /\ EndEarly
       ELSE IF output_db = src
       THEN \* shutil.copy2 of a file onto itself raises SameFileError
            /\ UNCHANGED <<db, static>>
            /\ EndEarly
       ELSE LET output_static == IF output_static_dir # 0 THEN output_static_dir ELSE src IN
            /\ db' = [db EXCEPT ![output_db] = db[src]]
            /\ static' = IF output_static # src
                         THEN [static EXCEPT ![output_static] = CopyStatic(static[src], @)]
                         ELSE static
            /\ IF has_papers THEN EnterLoop(kind, src, output_db, output_static)
               ELSE EndEarly

\* The option combinations of a pass.  An in-place pass ignores the output
\* options.
PassOptions ==
    { o \in [ src : Locs, in_place : BOOLEAN, output_db : Locs \cup {0},
              output_static_dir : Locs \cup {0}, has_papers : BOOLEAN ] :
        o.in_place => (o.output_db = 0 /\ o.output_static_dir = 0) }

StartUpdate ==
    \E o \in PassOptions :
        StartPass("update", o.src, o.in_place, o.output_db, o.output_static_dir, o.has_papers)

StartSupplement ==
    \E o \in PassOptions :
        StartPass("supplement", o.src, o.in_place, o.output_db, o.output_static_dir, o.has_papers)

\* Variant: every record is committed as soon as it is processed.
UpdateRecordAutocommit(paper, assets) ==
    LET source_hash == PaperSourceHash(paper)
        r == ResolvePaperIdentity(conn.alias, paper)
        added == AddNewPaper(conn, static[outStatic], paper, source_hash, r.paper_id,
                             r.paper_key, r.candidates, 0, 0, {})
    IN /\ pc = "update"
       /\ nrec' = nrec + 1
       /\ looped' = TRUE
       /\ IF PaperExists(conn, r.paper_id)
          THEN UNCHANGED <<conn, static, db>>
          ELSE /\ conn' = added.conn
               /\ static' = [static EXCEPT ![outStatic] = added.static]
               /\ db' = [db EXCEPT ![outDb] = added.conn]
       /\ UNCHANGED <<pc, outDb, outStatic, srcDb, written, passes>>

\* Variant: a record of an existing paper adds its template to that paper.
UpdateStepMerging(c, st, paper, assets) ==
    LET source_hash == PaperSourceHash(paper)
        r == ResolvePaperIdentity(c.alias, paper)
        existing == PaperExists(c, r.paper_id)
        md == IF source_hash # 0 THEN assets.md ELSE 0
        pdf == IF source_hash # 0 THEN assets.pdf ELSE 0
        translated == IF source_hash # 0 THEN assets.translated ELSE {}
        added == AddNewPaper(c, st, paper, source_hash, r.paper_id,
                             r.paper_key, r.candidates, md, pdf, translated)
        template_tag == CanonicalTemplateTag(paper.prompt_template)
    IN IF existing
       THEN [ conn |-> [c EXCEPT !.summary = @ \cup {[paper_id |-> r.paper_id,
                                                      template_tag |-> template_tag]}],
              static |-> [st EXCEPT !.summary = WriteSummaryFile(@, r.paper_id, template_tag,
                                                                 JsonText(paper))],
              papers_added |-> 0 ]
       ELSE [conn |-> added.conn, static |-> added.static, papers_added |-> 1]

\* The body of update_snapshot's loop on the tables c and the directory st;
\* papers_added is what the iteration adds to stats.papers_added.
UpdateStep(c, st, paper, assets) ==
    LET source_hash == PaperSourceHash(paper)
        r == ResolvePaperIdentity(c.alias, paper)
        existing == PaperExists(c, r.paper_id)
        md == IF source_hash # 0 THEN assets.md ELSE 0
        pdf == IF source_hash # 0 THEN assets.pdf ELSE 0
        translated == IF source_hash # 0 THEN assets.translated ELSE {}
        added == AddNewPaper(c, st, paper, source_hash, r.paper_id,
                             r.paper_key, r.candidates, md, pdf, translated)
    IN IF existing
       THEN [conn |-> c, static |-> st, papers_added |-> 0]
       ELSE [conn |-> added.conn, static |-> added.static, papers_added |-> 1]

\* One iteration of update_snapshot's loop.
UpdateRecordOf(paper, assets) ==
    LET u == UpdateStep(conn, static[outStatic], paper, assets)
    IN /\ pc = "update"
       /\ nrec' = nrec + 1
       /\ looped' = TRUE
       /\ conn' = u.conn
       /\ static' = [static EXCEPT ![outStatic] = u.static]
       /\ UNCHANGED <<db, pc, outDb, outStatic, srcDb, written, passes>>

RECURSIVE RunBatch(_, _, _, _)
\* update_snapshot's loop over a batch of records, with the files the index
\* of the run holds for their source hash.
RunBatch(c, st, batch, assets) ==
    IF batch = <<>> THEN [conn |-> c, static |-> st, papers_added |-> 0]
    ELSE LET u == UpdateStep(c, st, Head(batch), IF PaperSourceHash(Head(batch)) = 0
                                                 THEN [md |-> 0, pdf |-> 0, translated |-> {}]
                                                 ELSE assets)
             rest == RunBatch(u.conn, u.static, Tail(batch), assets)
         IN [rest EXCEPT !.papers_added = @ + u.papers_added]

\* The files build_index can find for a record: none without a source hash.
AssetsFor(paper, assets) ==
    IF PaperSourceHash(paper) = 0 THEN NoAssets ELSE assets

UpdateRecordIn(papers, assets) ==
    \E paper \in papers : \E a \in AssetsFor(paper, assets) : UpdateRecordOf(paper, a)

\* One iteration of supplement_snapshot's loop.
SupplementRecordOf(paper, found) ==
    LET paper_ids == ResolveExistingPaperIds(conn, paper)
        r == SupplementPapers(conn, static[outStatic], written, paper_ids, paper, found)
    IN /\ pc = "supplement"
       /\ nrec' = nrec + 1
       /\ looped' = TRUE
       /\ conn' = r.conn
       /\ static' = [static EXCEPT ![outStatic] = r.static]
       /\ written' = r.written
       /\ UNCHANGED <<db, pc, outDb, outStatic, srcDb, passes>>

\* The translated files a record can match: none without a source hash.
FoundFor(paper, founds) == IF paper.source_hash = 0 THEN NoFound ELSE founds

SupplementRecordIn(papers, founds) ==
    \E paper \in papers : \E found \in FoundFor(paper, founds) : SupplementRecordOf(paper, found)

\* The end of the loop: conn.commit() and conn.close().
Commit ==
    /\ pc \in {"update", "supplement"}
    /\ looped
    /\ db' = [db EXCEPT ![outDb] = conn]
    /\ pc' = "idle"
    /\ conn' = NoTables
    /\ UNCHANGED <<static, outDb, outStatic, srcDb, written, nrec, looped, passes>>

\* An exception inside the loop: the finally clause closes the connection
\* without a commit, which rolls the transaction back; files stay.
Abort ==
    /\ pc \in {"update", "supplement"}
    /\ pc' = "idle"
    /\ conn' = NoTables
    /\ UNCHANGED <<db, static, outDb, outStatic, srcDb, written, nrec, looped, passes>>

\* The machine fed the records of papers, with the files of assets and
\* founds, for max_passes passes over max_records records in all.
NextOf(papers, assets, founds, max_passes, max_records) ==
    \/ passes < max_passes /\ StartUpdate /\ UNCHANGED <<writerVars, callVars>>
    \/ passes < max_passes /\ StartSupplement /\ UNCHANGED <<writerVars, callVars>>
    \/ nrec < max_records /\ UpdateRecordIn(papers, assets) /\ UNCHANGED <<writerVars, callVars>>
    \/ nrec < max_records /\ SupplementRecordIn(papers, founds) /\ UNCHANGED <<writerVars, callVars>>
    \/ Commit /\ UNCHANGED <<writerVars, callVars>>
    \/ Abort /\ UNCHANGED <<writerVars, callVars>>

Next == NextOf(Records, UpdateAssets, SupplementFound, MaxPasses, MaxRecords)

Spec == Init /\ [][Next]_vars

\* The machine fed the records that differ in their identity fields.
NextIdentity == NextOf(IdentityRecords, NoAssets, NoFound, MaxPasses, MaxRecords)

SpecIdentity == Init /\ [][NextIdentity]_vars

\* The same over three records.
NextIdentityMany == NextOf(IdentityRecords, NoAssets, NoFound, MaxPasses, ManyRecords)

SpecIdentityMany == Init /\ [][NextIdentityMany]_vars

\* The machine fed the records that carry files.
NextBlobs == NextOf(BlobRecords, BlobAssets, SupplementFound, MaxPasses, MaxRecords)

SpecBlobs == Init /\ [][NextBlobs]_vars

\* The same over three passes.
NextBlobsMany == NextOf(BlobRecords, BlobAssets, SupplementFound, ManyPasses, MaxRecords)

SpecBlobsMany == Init /\ [][NextBlobsMany]_vars

\* The same with the files update passes find, and none for supplement passes.
NextRerun == NextOf(BlobRecords, FewAssets, NoFound, MaxPasses, MaxRecords)

SpecRerun == Init /\ [][NextRerun]_vars

\* The machine fed the records that differ in template tag and body.
NextTemplates == NextOf(TemplateRecords, FewAssets, SupplementFound, MaxPasses, MaxRecords)

SpecTemplates == Init /\ [][NextTemplates]_vars

\* Two passes at the same time, each with one record, on an empty snapshot.
InitWriters ==
    /\ db = [l \in Locs |-> IF l = 1 THEN EmptyTables ELSE NoTables]
    /\ static = [l \in Locs |-> IF l = 1 THEN EmptyDir ELSE NoDir]
    /\ pc = "idle"
    /\ conn = NoTables
    /\ outDb = 1
    /\ outStatic = 1
    /\ srcDb = 1
    /\ written = {}
    /\ nrec = 0
    /\ looped = FALSE
    /\ passes = 0
    /\ shared = EmptyTables
    /\ writers \in [Writers -> {[pc |-> "probe", paper |-> p, paper_id |-> 0, tx |-> NoTables] :
                                    p \in IdentityRecords}]
    /\ lock = 0
    /\ NoCall

NextWriters ==
    \/ \E w \in Writers : WProbe(w) /\ UNCHANGED <<passVars, callVars>>
    \/ \E w \in Writers : WInsert(w) /\ UNCHANGED <<passVars, callVars>>
    \/ \E w \in Writers : WLocked(w) /\ UNCHANGED <<passVars, callVars>>
    \/ \E w \in Writers : WCommit(w) /\ UNCHANGED <<passVars, callVars>>

SpecWriters == InitWriters /\ [][NextWriters]_vars

(***************************************************************************)
(* Properties.                                                             *)
(***************************************************************************)

\* The keys a record is looked up under.
CandidateKeys(paper) ==
    LET candidates == BuildPaperKeyCandidates(paper)
    IN {candidates[i].paper_key : i \in 1..Len(candidates)}

\* The paper ids the registry holds for the keys of a record.
RegisteredIds(alias, paper) ==
    {a.paper_id : a \in {b \in alias : b.paper_key \in CandidateKeys(paper)}}

\* Every key of the registry points at one paper.
KeysUnique(alias) ==
    \A a \in alias : \A b \in alias : a.paper_key = b.paper_key => a.paper_id = b.paper_id

\* C1: inside an update pass, a record one of whose candidate keys is in the
\* alias registry resolves to a paper_id the registry holds for one of its
\* keys, and the paper of that id exists, so that the pass goes on to the
\* next record and allocates no id -- whatever id the record itself carries.
C1_ResolveReturnsRegistered ==
    pc = "update" =>
      \A paper \in Records :
        LET r == ResolvePaperIdentity(conn.alias, paper)
        IN RegisteredIds(conn.alias, paper) # {} =>
             /\ r.paper_id \in RegisteredIds(conn.alias, paper)
             /\ PaperExists(conn, r.paper_id)

\* A pass has processed a record, and a record that carries an id of its own
\* resolves through the registry to a different, registered one.
C1_Witness ==
    /\ pc = "update"
    /\ looped
    /\ \E paper \in IdentityRecords :
         /\ paper.paper_id # 0
         /\ RegisteredIds(conn.alias, paper) # {}
         /\ ResolvePaperIdentity(conn.alias, paper).paper_id # paper.paper_id

\* C2: an update step for a record that reaches an existing paper through one
\* of its keys keeps the paper table as it is and leaves every candidate key
\* of the record registered under the id the record resolved to.
C2_NewKeyRegistered ==
    [][ \A paper \in IdentityRecords :
          LET r == ResolvePaperIdentity(conn.alias, paper)
          IN ( /\ RegisteredIds(conn.alias, paper) # {}
               /\ \E a \in NoAssets : UpdateRecordOf(paper, a) )
             => /\ conn'.paper = conn.paper
                /\ \A k \in CandidateKeys(paper) :
                     [paper_key |-> k, paper_id |-> r.paper_id] \in conn'.alias ]_vars

\* C3: after every step each key of the registry, in the connection and in
\* every database file, points at one paper, and a step of an update pass
\* leaves every key that was registered before it on the paper it pointed at.
C3_KeyMapsToOnePaper ==
    [][ /\ KeysUnique(conn'.alias)
        /\ \A l \in Locs : KeysUnique(db'[l].alias)
        /\ (pc = "update" /\ pc' = "update") =>
             \A a \in conn.alias : \A b \in conn'.alias :
                a.paper_key = b.paper_key => a.paper_id = b.paper_id ]_vars

\* Two papers are registered, and some record shares a key with one of them
\* while another of its keys is not registered.
C3_Witness ==
    /\ pc = "update"
    /\ Cardinality({a.paper_id : a \in conn.alias}) >= 2
    /\ \E paper \in IdentityRecords :
         /\ RegisteredIds(conn.alias, paper) # {}
         /\ \E k \in CandidateKeys(paper) : AliasRows(conn.alias, k) = {}

\* C4: inside a pass, update or supplement, the connection holds every alias
\* row of the snapshot the pass started from, and the commit that ends the
\* pass leaves every one of these rows in the output database.
C4_AliasRegistryGrows ==
    [][ /\ pc' # "idle" => db'[srcDb'].alias \subseteq conn'.alias
        /\ (pc # "idle" /\ pc' = "idle" /\ db' # db) =>
             db[srcDb].alias \subseteq db'[outDb].alias ]_vars

\* A pass over a snapshot with registered keys has registered more.
C4_Witness ==
    /\ pc = "update"
    /\ looped
    /\ db[srcDb].alias # {}
    /\ conn.alias # db[srcDb].alias

\* C5: the candidates of a record come in the order doi, bibtex, meta,
\* title_compact, title_prefix, year_author, and inside an update pass the
\* record resolves to the paper of the first candidate key that has an alias
\* row, whatever papers the later candidates point at.
C5_FirstMatchingKeyWins ==
    pc = "update" =>
      \A paper \in Records :
        LET candidates == BuildPaperKeyCandidates(paper)
            r == ResolvePaperIdentity(conn.alias, paper)
        IN /\ \A i \in 1..Len(candidates) : \A j \in 1..Len(candidates) :
                i < j => KeyTypeNo(candidates[i].key_type) < KeyTypeNo(candidates[j].key_type)
           /\ \A i \in 1..Len(candidates) :
                ( /\ AliasRows(conn.alias, candidates[i].paper_key) # {}
                  /\ \A j \in 1..(i - 1) : AliasRows(conn.alias, candidates[j].paper_key) = {} )
                => /\ r.paper_key = candidates[i].paper_key
                   /\ \A a \in AliasRows(conn.alias, candidates[i].paper_key) :
                        r.paper_id = a.paper_id

\* Two candidate keys of one record point at different papers.
C5_Witness ==
    /\ pc = "update"
    /\ looped
    /\ \E paper \in IdentityRecords :
         LET candidates == BuildPaperKeyCandidates(paper)
         IN \E i \in 1..Len(candidates) : \E j \in 1..Len(candidates) :
              /\ i < j
              /\ \E a \in AliasRows(conn.alias, candidates[i].paper_key) :
                 \E b \in AliasRows(conn.alias, candidates[j].paper_key) :
                    a.paper_id # b.paper_id

\* C6: a step of a supplement pass, which processes one record, attaches
\* summaries to one paper at most, also when the keys of the record reach
\* several papers.
C6_AttachedToOnePaper ==
    [][ (pc = "supplement" /\ pc' = "supplement") =>
          Cardinality({s.paper_id : s \in conn'.summary \ conn.summary}) <= 1 ]_vars

\* Nothing of the snapshot answers to the record: no paper of its id, of its
\* source hash or of its markdown hash, and no alias row for any of its keys.
Unresolvable(c, paper) ==
    /\ \A p \in c.paper :
         /\ p.paper_id # paper.paper_id
         /\ paper.source_hash # 0 =>
              (p.source_hash # paper.source_hash /\ p.source_md_content_hash # paper.source_hash)
    /\ RegisteredIds(c.alias, paper) = {}

\* C7: inside a supplement pass the paper table and the alias registry are
\* those of the snapshot the pass started from; every summary or translation
\* row a step adds belongs to a paper of the table; and the step for a record
\* that nothing of the snapshot answers to changes neither the tables nor the
\* files.
C7_SupplementCreatesNoPaper ==
    [][ /\ pc' = "supplement" =>
             /\ conn'.paper = db'[srcDb'].paper
             /\ conn'.alias = db'[srcDb'].alias
        /\ (pc = "supplement" /\ pc' = "supplement") =>
             /\ \A s \in conn'.summary \ conn.summary : PaperExists(conn, s.paper_id)
             /\ \A t \in conn'.translation \ conn.translation : PaperExists(conn, t.paper_id)
             /\ \A paper \in IdentityRecords : \A found \in NoFound :
                  (Unresolvable(conn, paper) /\ SupplementRecordOf(paper, found))
                  => (conn' = conn /\ static' = static)
        /\ (pc = "supplement" /\ pc' = "idle") =>
             {p.paper_id : p \in db'[outDb].paper} = {p.paper_id : p \in db[srcDb].paper} ]_vars

\* A supplement pass over a snapshot with papers has added a summary, and
\* there is a record that nothing of the snapshot answers to.
C7_Witness ==
    /\ pc = "supplement"
    /\ looped
    /\ conn.paper # {}
    /\ conn.summary # db[srcDb].summary
    /\ \E paper \in IdentityRecords : Unresolvable(conn, paper)

\* The summary files of a row of paper_summary.
SummaryFilesOf(files, row) ==
    {f \in files : f.paper_id = row.paper_id /\ f.tag = row.template_tag}

\* C8: a step of a supplement pass leaves every summary row that exists before
\* it in the table with its file as it is, every translation row with its
\* recorded hash, and every translated file and image; and when a record
\* finds several files for a language the paper has no translation in, the
\* row of that language records the first file.
C8_SupplementKeepsExisting ==
    [][ (pc = "supplement" /\ pc' = "supplement") =>
          /\ \A s \in conn.summary :
               /\ s \in conn'.summary
               /\ SummaryFilesOf(static'[outStatic].summary, s)
                    = SummaryFilesOf(static[outStatic].summary, s)
          /\ conn.translation \subseteq conn'.translation
          /\ static[outStatic].md_translate \subseteq static'[outStatic].md_translate
          /\ static[outStatic].images \subseteq static'[outStatic].images
          /\ \A paper \in TemplateRecords : \A found \in SupplementFound :
               (found # <<>> /\ SupplementRecordOf(paper, found)) =>
                 \A t \in conn'.translation \ conn.translation :
                    t.md_content_hash = HashBytes(RewrittenMarkdown(found[1].data)) ]_vars

\* A supplement pass runs on a paper that has a summary under a tag and a
\* translation, after a record was processed, and there are records of other
\* content for the same tag.
C8_Witness ==
    /\ pc = "supplement"
    /\ looped
    /\ conn.translation # {}
    /\ \E s \in conn.summary : \E paper \in TemplateRecords :
         /\ SupplementTemplateTag(paper) = s.template_tag
         /\ s.paper_id \in ResolveExistingPaperIds(conn, paper)
         /\ \E f \in SummaryFilesOf(static[outStatic].summary, s) : f.data # JsonText(paper)

\* Every file is named by the hash of its content.
ContentAddressed(files) == \A f \in files : f.name = HashBytes(f.data)

\* The papers of a table that record a markdown file.
PapersWithMarkdown(c) == {p \in c.paper : p.source_md_content_hash # HashBytes(0)}

\* C9: in every export directory each file of md/, pdf/, md_translate/<lang>/
\* and images/ is named by the hash of its content, so that one content has
\* one file; putting a content that is stored changes nothing; and every
\* markdown hash a paper records names a file of the directory the pass
\* writes to.
C9_PutIdempotent ==
    /\ \A l \in Locs :
         /\ ContentAddressed(static[l].md)
         /\ ContentAddressed(static[l].pdf)
         /\ ContentAddressed(static[l].md_translate)
         /\ ContentAddressed(static[l].images)
         /\ \A data \in MdContents :
              /\ PutBlob(PutBlob(static[l].md, data), data) = PutBlob(static[l].md, data)
              /\ (\E f \in static[l].md : f.data = data) => PutBlob(static[l].md, data) = static[l].md
    /\ pc = "update" =>
         \A p \in PapersWithMarkdown(conn) \ PapersWithMarkdown(db[srcDb]) :
            Cardinality({f \in static[outStatic].md : f.name = p.source_md_content_hash}) = 1

\* Two papers added by a pass record the same markdown, and the directory
\* holds one markdown file.
C9_Witness ==
    /\ pc = "update"
    /\ Cardinality(static[outStatic].md) = 1
    /\ \E p \in PapersWithMarkdown(conn) : \E q \in PapersWithMarkdown(conn) :
         /\ p.paper_id # q.paper_id
         /\ p.source_md_content_hash = q.source_md_content_hash

\* C10: no step removes or changes a file of md/, pdf/, md_translate/ or
\* images/ of any export directory.
C10_BlobStoreGrows ==
    [][ \A l \in Locs :
          /\ static[l].md \subseteq static'[l].md
          /\ static[l].pdf \subseteq static'[l].pdf
          /\ static[l].md_translate \subseteq static'[l].md_translate
          /\ static[l].images \subseteq static'[l].images ]_vars

\* C11: while a pass runs, the database files change at its commit only, and
\* then the output database becomes the tables of the connection as a whole;
\* a pass that ends without its commit leaves every database file as it was.
\* In every database file each alias row points at a paper of the file.
C11_CommittedAtomically ==
    [][ /\ pc # "idle" =>
             \/ db' = db
             \/ /\ pc' = "idle"
                /\ looped
                /\ db' = [db EXCEPT ![outDb] = conn]
        /\ \A l \in Locs : \A a \in db'[l].alias : PaperExists(db'[l], a.paper_id) ]_vars

\* Passes have ended without a commit: summary files exist, and no database
\* file holds a paper.
C11_Witness ==
    /\ pc = "idle"
    /\ \A l \in Locs : db[l].paper = {}
    /\ \E l \in Locs : static[l].summary # {}

\* C12: when the records of two passes that run at the same time on an empty
\* snapshot share a candidate key, the committed tables hold one paper at
\* most, and whatever ends, one paper row at most was created for the key.
C12_NoCheckThenAllocateRace ==
    (CandidateKeys(writers[1].paper) \cap CandidateKeys(writers[2].paper) # {})
        => Cardinality(shared.paper) <= 1

\* The batches of one or two records.
Batches(papers) == {<<p>> : p \in papers} \cup {<<p, q>> : p \in papers, q \in papers}

\* No two files of the same content.
NoDuplicateContent(files) == \A f \in files : \A g \in files : f.data = g.data => f = g

\* C13: on every snapshot a pass has left behind, for every batch of records
\* and the files found for them: the update loop run a second time on the
\* result of the first run adds no paper and leaves tables and files as the
\* first run left them; the batch with every record twice gives what the
\* batch gives; and md/ and pdf/ hold no two files of one content.
C13_PassIdempotent ==
    pc = "idle" =>
      \A l \in Locs : (db[l].exists /\ static[l].exists) =>
        \A batch \in Batches(BlobRecords) : \A assets \in FewAssets :
          LET once == RunBatch(db[l], static[l], batch, assets)
              twice == RunBatch(once.conn, once.static, batch, assets)
              doubled == RunBatch(db[l], static[l], batch \o batch, assets)
          IN /\ twice.papers_added = 0
             /\ twice.conn = once.conn
             /\ twice.static = once.static
             /\ doubled = once
             /\ NoDuplicateContent(once.static.md)
             /\ NoDuplicateContent(once.static.pdf)

\* The second pass on a snapshot runs in place on what the first committed,
\* has processed a record, and has changed neither tables nor markdown files.
C13_Witness ==
    /\ pc = "update"
    /\ looped
    /\ passes >= 2
    /\ srcDb = outDb
    /\ conn.paper # {}
    /\ conn = db[outDb]
    /\ static[outStatic].md # {}

(***************************************************************************)
(* Metadata of a paper that a later build sees again (bibtex_utils.py and  *)
(* the inheritance rule of the builder).  A DOI is a number: 1, 3 and 4    *)
(* are canonical DOIs, 2 is another spelling of DOI 1, 9 is text that is   *)
(* no DOI and 0 is an absent or empty value.  A raw BibTeX text is a       *)
(* number too: text 6 has a line "doi = 4", text 5 has no doi line, text 8 *)
(* is what the entry is rendered to when it carries no raw text.           *)
(***************************************************************************)
CanonicalizeDoi(value) ==
    CASE value = 2 -> 1
      [] value = 9 -> 0
      [] OTHER -> value

BibtexEntryToText(bib) == IF bib.key # 0 /\ bib.type # 0 THEN 8 ELSE 0

ExtractDoiFromBibtexRaw(raw) == IF raw = 6 THEN CanonicalizeDoi(4) ELSE 0

NoBibtex == [present |-> FALSE, raw_entry |-> 0, key |-> 0, type |-> 0, doi |-> 0]

\* The fields of the BibTeX block of a paper ({} in the code when there is none).
BibFields(paper) == IF paper.bibtex.present THEN paper.bibtex.doi ELSE 0

\* A variant of ExtractCanonicalDoi that asks the BibTeX fields first.
ExtractDoiBibtexFirst(paper, bib_doi) ==
    IF bib_doi # 0 /\ CanonicalizeDoi(bib_doi) # 0 THEN CanonicalizeDoi(bib_doi)
    ELSE IF CanonicalizeDoi(paper.doi) # 0 THEN CanonicalizeDoi(paper.doi)
    ELSE CanonicalizeDoi(paper.paper_doi)

ExtractCanonicalDoi(paper, bib_doi) ==
    IF CanonicalizeDoi(paper.doi) # 0 THEN CanonicalizeDoi(paper.doi)
    ELSE IF CanonicalizeDoi(paper.paper_doi) # 0 THEN CanonicalizeDoi(paper.paper_doi)
    ELSE IF bib_doi = 0 THEN 0
    ELSE CanonicalizeDoi(bib_doi)

NoPayload == [raw |-> 0, key |-> 0, entry_type |-> 0, bib_doi |-> 0]

ExtractCurrentBibtexPayload(paper) ==
    LET bib == paper.bibtex
        raw == IF bib.raw_entry # 0 THEN bib.raw_entry ELSE BibtexEntryToText(bib)
        fields_doi == CanonicalizeDoi(bib.doi)
    IN  IF ~bib.present THEN NoPayload
        ELSE IF raw = 0 THEN NoPayload
        ELSE [raw |-> raw, key |-> bib.key, entry_type |-> bib.type,
              bib_doi |-> IF fields_doi # 0 THEN fields_doi
                          ELSE ExtractDoiFromBibtexRaw(raw)]

\* The stored metadata of a paper after a build that sees the paper again:
\* field by field, a non-empty value of the record replaces the stored one.
InheritMetadata(prior, paper) ==
    LET payload == ExtractCurrentBibtexPayload(paper)
        canonical == ExtractCanonicalDoi(paper, BibFields(paper))
        doi == IF canonical # 0 THEN canonical ELSE payload.bib_doi
    IN  [paper_id |-> prior.paper_id,
         doi |-> IF doi # 0 THEN doi ELSE prior.doi,
         bibtex_raw |-> IF payload.raw # 0 THEN payload.raw ELSE prior.bibtex_raw,
         bibtex_key |-> IF payload.key # 0 THEN payload.key ELSE prior.bibtex_key,
         entry_type |-> IF payload.entry_type # 0 THEN payload.entry_type
                        ELSE prior.entry_type]

\* What the prior snapshot stores for the paper: a DOI or none, a paper_bibtex
\* row or none.
PriorMetadata ==
    { [paper_id |-> 7, doi |-> d, bibtex_raw |-> b[1], bibtex_key |-> b[2],
       entry_type |-> b[3]] : d \in {0, 1}, b \in {<<0, 0, 0>>, <<5, 2, 2>>} }

BibtexBlocks ==
    {NoBibtex} \cup [present : {TRUE}, raw_entry : {0, 5, 6}, key : {0, 1},
                     type : {0, 1}, doi : {0, 3}]

MetadataRecords == [doi : {0, 1, 2, 9}, paper_doi : {0, 3}, bibtex : BibtexBlocks]

InitMetadata ==
    /\ db = [l \in Locs |-> IF l = 1 THEN EmptyTables ELSE NoTables]
    /\ static = [l \in Locs |-> IF l = 1 THEN EmptyDir ELSE NoDir]
    /\ pc = "idle"
    /\ conn = NoTables
    /\ outDb = 1
    /\ outStatic = 1
    /\ srcDb = 1
    /\ written = {}
    /\ nrec = 0
    /\ looped = FALSE
    /\ passes = 0
    /\ NoWriters
    /\ \E prior \in PriorMetadata, paper \in MetadataRecords :
           call = [fn |-> "inherit", prior |-> prior, paper |-> paper]
    /\ ret = [done |-> FALSE]

Inherit ==
    /\ Pending("inherit")
    /\ ret' = [done |-> TRUE, value |-> InheritMetadata(call.prior, call.paper)]
    /\ UNCHANGED <<call, passVars, writerVars>>

NextMetadata == Inherit

SpecMetadata == InitMetadata /\ [][NextMetadata]_vars

TitleMinChars == 24

TitleMinTokens == 4

\* Scores are fractions [num, den]; thresholds are counted in units of
\* 1/Scale, fine enough for ten halvings of one step to stay whole numbers.
Scale == 20480

SimilarityStart == 19456

SimilarityStep == 1024

SimilarityMaxSteps == 10

AuthorYearMinSimilarity == 16384

TitlePrefixLen == 16

LeadingNumericMaxLen == 2

IsLetter(c) == c \in 1..19

IsDigit(c) == c = 19

RECURSIVE Strip(_)
Strip(s) ==
    IF s = <<>> THEN s
    ELSE IF Head(s) = 0 THEN Strip(Tail(s))
    ELSE IF s[Len(s)] = 0 THEN Strip(SubSeq(s, 1, Len(s) - 1))
    ELSE s

\* str.split(): the maximal runs of characters that are no spaces.
RECURSIVE Split(_)
Split(s) ==
    LET t == Strip(s)
        stops == {i \in 1..Len(t) : t[i] = 0}
    IN  IF t = <<>> THEN <<>>
        ELSE IF stops = {} THEN <<t>>
        ELSE <<SubSeq(t, 1, Min(stops) - 1)>> \o Split(SubSeq(t, Min(stops), Len(t)))

\* " ".join(tokens)
RECURSIVE Join(_)
Join(tokens) ==
    IF tokens = <<>> THEN <<>>
    ELSE IF Len(tokens) = 1 THEN tokens[1]
    ELSE tokens[1] \o <<0>> \o Join(Tail(tokens))

\* The loop of _normalize_title_key that glues a token of one character to
\* the token after it.
RECURSIVE MergeSingles(_)
MergeSingles(tokens) ==
    IF tokens = <<>> THEN <<>>
    ELSE IF Len(tokens[1]) = 1 /\ Len(tokens) > 1
         THEN <<tokens[1] \o tokens[2]>> \o MergeSingles(SubSeq(tokens, 3, Len(tokens)))
    ELSE <<tokens[1]>> \o MergeSingles(Tail(tokens))

\* The two substitutions of _normalize_title_key that put a space between a
\* letter and a digit.
RECURSIVE SplitLetterDigit(_)
SplitLetterDigit(s) ==
    IF Len(s) < 2 THEN s
    ELSE IF IsLetter(s[1]) /\ IsLetter(s[2]) /\ IsDigit(s[1]) # IsDigit(s[2])
         THEN <<s[1], 0>> \o SplitLetterDigit(Tail(s))
    ELSE <<s[1]>> \o SplitLetterDigit(Tail(s))

NormalizeTitleKey(title) ==
    LET value == SplitLetterDigit([i \in 1..Len(title) |->
                                       IF title[i] = 20 THEN 0 ELSE title[i]])
    IN  Join(MergeSingles(Split([i \in 1..Len(value) |->
                                     IF IsLetter(value[i]) THEN value[i] ELSE 0])))

ExtractTitleFromFilename(name) ==
    LET base == IF name # <<>> /\ name[Len(name)] = 21
                THEN SubSeq(name, 1, Len(name) - 1) ELSE name
        spaced == Strip([i \in 1..Len(base) |-> IF base[i] = 20 THEN 0 ELSE base[i]])
    IN  IF Len(spaced) > 1 /\ spaced[1] = 22 THEN Strip(Tail(spaced)) ELSE spaced

CandidateTitle(path) == NormalizeTitleKey(ExtractTitleFromFilename(path))

\* shorter in longer
Contains(longer, shorter) ==
    \E i \in 1..(Len(longer) - Len(shorter) + 1) :
        SubSeq(longer, i, i + Len(shorter) - 1) = shorter

\* A variant of TitleOverlapMatch without the guard on the shorter title.
TitleOverlapUnguarded(a, b) ==
    /\ a # <<>>
    /\ b # <<>>
    /\ \/ Contains(a, b)
       \/ Contains(b, a)

TitleOverlapMatch(a, b) ==
    LET shorter == IF Len(a) <= Len(b) THEN a ELSE b
        longer == IF Len(a) <= Len(b) THEN b ELSE a
        token_count == Len(Split(shorter))
    IN  IF a = <<>> \/ b = <<>> THEN FALSE
        ELSE IF a = b THEN TRUE
        ELSE /\ Len(shorter) >= TitleMinChars \/ token_count >= TitleMinTokens
             /\ Contains(longer, shorter)

\* The number of characters in the matching blocks of difflib's
\* SequenceMatcher: the longest common block (the earliest in a, then the
\* earliest in b), then the same to its left and to its right.
RECURSIVE MatchingChars(_, _)
MatchingChars(a, b) ==
    LET blocks == {blk \in (1..Len(a)) \X (1..Len(b)) \X (1..Min({Len(a), Len(b)})) :
                      /\ blk[1] + blk[3] - 1 <= Len(a)
                      /\ blk[2] + blk[3] - 1 <= Len(b)
                      /\ SubSeq(a, blk[1], blk[1] + blk[3] - 1)
                             = SubSeq(b, blk[2], blk[2] + blk[3] - 1)}
        k == Max({blk[3] : blk \in blocks})
        i == Min({blk[1] : blk \in {x \in blocks : x[3] = k}})
        j == Min({blk[2] : blk \in {x \in blocks : x[3] = k /\ x[1] = i}})
    IN  IF a = <<>> \/ b = <<>> \/ blocks = {} THEN 0
        ELSE k + MatchingChars(SubSeq(a, 1, i - 1), SubSeq(b, 1, j - 1))
               + MatchingChars(SubSeq(a, i + k, Len(a)), SubSeq(b, j + k, Len(b)))

Score(num, den) == [num |-> num, den |-> den]

TitleSimilarity(a, b) ==
    IF a = <<>> \/ b = <<>> THEN Score(0, 1)
    ELSE Score(2 * MatchingChars(a, b), Len(a) + Len(b))

\* score >= threshold
ScoreAtLeast(score, threshold) == score.num * Scale >= threshold * score.den

NoMatch == [found |-> FALSE, path |-> <<>>, score |-> Score(0, 1)]

Match(path, score) == [found |-> TRUE, path |-> path, score |-> score]

\* A variant of ScanCandidates that scores every candidate and never returns
\* on an overlap.
RECURSIVE ScanWithoutOverlap(_, _, _)
ScanWithoutOverlap(title_key, candidates, scored) ==
    IF candidates = <<>> THEN [hit |-> NoMatch, scored |-> scored]
    ELSE LET path == Head(candidates)
             candidate_title == CandidateTitle(path)
         IN  IF candidate_title = <<>>
             THEN ScanWithoutOverlap(title_key, Tail(candidates), scored)
             ELSE ScanWithoutOverlap(title_key, Tail(candidates),
                      Append(scored, [path |-> path,
                                      score |-> TitleSimilarity(title_key, candidate_title)]))

\* The first loop of _adaptive_similarity_match: the overlapping candidate it
\* returns on, or else the scored candidates.
RECURSIVE ScanCandidates(_, _, _)
ScanCandidates(title_key, candidates, scored) ==
    IF candidates = <<>> THEN [hit |-> NoMatch, scored |-> scored]
    ELSE LET path == Head(candidates)
             candidate_title == CandidateTitle(path)
         IN  IF candidate_title = <<>>
             THEN ScanCandidates(title_key, Tail(candidates), scored)
             ELSE IF TitleOverlapMatch(title_key, candidate_title)
             THEN [hit |-> Match(path, Score(1, 1)), scored |-> scored]
             ELSE ScanCandidates(title_key, Tail(candidates),
                      Append(scored, [path |-> path,
                                      score |-> TitleSimilarity(title_key, candidate_title)]))

\* A variant of MatchesAt that takes the candidates whose score lies in the
\* step that starts at the threshold.
MatchesInBand(scored, threshold) ==
    SelectSeq(scored, LAMBDA e : /\ ScoreAtLeast(e.score, threshold)
                                 /\ ~ScoreAtLeast(e.score, threshold + SimilarityStep))

MatchesAt(scored, threshold) ==
    SelectSeq(scored, LAMBDA e : ScoreAtLeast(e.score, threshold))

\* The inner loop: halve the interval between a threshold without a match
\* and the next one, which has several.
RECURSIVE BinarySearch(_, _, _, _)
BinarySearch(scored, low, high, steps) ==
    LET mid == (low + high) \div 2
        mid_matches == MatchesAt(scored, mid)
    IN  IF steps = 0 THEN NoMatch
        ELSE IF Len(mid_matches) = 1 THEN Match(mid_matches[1].path, mid_matches[1].score)
        ELSE IF Len(mid_matches) = 0 THEN BinarySearch(scored, low, mid, steps - 1)
        ELSE BinarySearch(scored, mid, high, steps - 1)

\* A variant of ThresholdSearch that reports the threshold it stopped at as
\* the score.
RECURSIVE ThresholdSearchReportsThreshold(_, _, _, _)
ThresholdSearchReportsThreshold(scored, threshold, prev_count, steps) ==
    LET matches == MatchesAt(scored, threshold)
    IN  IF steps = 0 THEN NoMatch
        ELSE IF Len(matches) = 1 THEN Match(matches[1].path, Score(threshold, Scale))
        ELSE IF Len(matches) = 0
             THEN ThresholdSearchReportsThreshold(scored, threshold - SimilarityStep, 0,
                                                  steps - 1)
        ELSE IF prev_count = 0
             THEN BinarySearch(scored, threshold, threshold + SimilarityStep,
                               SimilarityMaxSteps)
        ELSE ThresholdSearchReportsThreshold(scored, threshold - SimilarityStep,
                                             Len(matches), steps - 1)

\* The outer loop; prev_count is -1 for None, and prev_threshold, which is set
\* together with prev_count = 0, is then one step above the threshold.
RECURSIVE ThresholdSearch(_, _, _, _)
ThresholdSearch(scored, threshold, prev_count, steps) ==
    LET matches == MatchesAt(scored, threshold)
    IN  IF steps = 0 THEN NoMatch
        ELSE IF Len(matches) = 1 THEN Match(matches[1].path, matches[1].score)
        ELSE IF Len(matches) = 0
             THEN ThresholdSearch(scored, threshold - SimilarityStep, 0, steps - 1)
        ELSE IF prev_count = 0
             THEN BinarySearch(scored, threshold, threshold + SimilarityStep,
                               SimilarityMaxSteps)
        ELSE ThresholdSearch(scored, threshold - SimilarityStep, Len(matches), steps - 1)

AdaptiveSimilarityMatch(title_key, candidates) ==
    LET scan == ScanCandidates(title_key, candidates, <<>>)
    IN  IF title_key = <<>> THEN NoMatch
        ELSE IF scan.hit.found THEN scan.hit
        ELSE IF scan.scored = <<>> THEN NoMatch
        ELSE ThresholdSearch(scan.scored, SimilarityStart, -1, SimilarityMaxSteps)

(***************************************************************************)
(* The matcher is called with a title key and a pool of files.             *)
(***************************************************************************)
MaxPool == 2

\* "ab cd ef gh", "ab cd" and the empty key.
TitleKeys ==
    { <<1, 2, 0, 3, 4, 0, 5, 6, 0, 7, 8>>,
      <<1, 2, 0, 3, 4>>,
      <<>> }

\* ab_cd_ef_gh_ij.md, ab_cd_ef_gh_kl, ab_cd_ef_gq.md, ab_cd_ef_gr.md,
\* ab_cd_efgh, ab_cd_qref_gh, _.md, ab_cd_ef
Files ==
    { <<1, 2, 20, 3, 4, 20, 5, 6, 20, 7, 8, 20, 9, 10, 21>>,
      <<1, 2, 20, 3, 4, 20, 5, 6, 20, 7, 8, 20, 11, 12>>,
      <<1, 2, 20, 3, 4, 20, 5, 6, 20, 7, 17, 21>>,
      <<1, 2, 20, 3, 4, 20, 5, 6, 20, 7, 18, 21>>,
      <<1, 2, 20, 3, 4, 20, 5, 6, 7, 8>>,
      <<1, 2, 20, 3, 4, 20, 17, 18, 5, 6, 20, 7, 8>>,
      <<20, 21>>,
      <<1, 2, 20, 3, 4, 20, 5, 6>> }

\* The lists of at most n different members of S.
ListsOf(S, n) ==
    UNION {{s \in [1..k -> S] : \A i, j \in 1..k : s[i] = s[j] => i = j} : k \in 0..n}

Pools == ListsOf(Files, MaxPool)

InitMatcher ==
    /\ db = [l \in Locs |-> IF l = 1 THEN EmptyTables ELSE NoTables]
    /\ static = [l \in Locs |-> IF l = 1 THEN EmptyDir ELSE NoDir]
    /\ pc = "idle"
    /\ conn = NoTables
    /\ outDb = 1
    /\ outStatic = 1
    /\ srcDb = 1
    /\ written = {}
    /\ nrec = 0
    /\ looped = FALSE
    /\ passes = 0
    /\ NoWriters
    /\ \E title_key \in TitleKeys, candidates \in Pools :
           call = [fn |-> "match", title_key |-> title_key, candidates |-> candidates]
    /\ ret = [done |-> FALSE]

AdaptiveMatch ==
    /\ Pending("match")
    /\ ret' = [done |-> TRUE,
               value |-> AdaptiveSimilarityMatch(call.title_key, call.candidates)]
    /\ UNCHANGED <<call, passVars, writerVars>>

NextMatcher == AdaptiveMatch

SpecMatcher == InitMatcher /\ [][NextMatcher]_vars

\* The members of a list.
Range(s) == {s[i] : i \in 1..Len(s)}

\* The candidates of a pool that have a title, and the score of each.
Titled(candidates) == SelectSeq(candidates, LAMBDA path : CandidateTitle(path) # <<>>)

ScoreOf(title_key, path) == TitleSimilarity(title_key, CandidateTitle(path))

Overlapping(title_key, candidates) ==
    {path \in Range(Titled(candidates)) : TitleOverlapMatch(title_key, CandidateTitle(path))}

\* The candidates that score at least the threshold.
Qualifying(title_key, candidates, threshold) ==
    {path \in Range(Titled(candidates)) :
         ScoreAtLeast(ScoreOf(title_key, path), threshold)}

\* The thresholds 0.95, 0.90, ..., 0.50.
Thresholds == {SimilarityStart - i * SimilarityStep : i \in 0..(SimilarityMaxSteps - 1)}

\* Every list with the members of candidates, in any order.
Reorderings(candidates) ==
    {s \in [1..Len(candidates) -> Range(candidates)] : Range(s) = Range(candidates)}

\* C15: the result of the matcher does not depend on the order of the
\* candidates in the pool, and when several candidates match the title
\* equally well the result is no match.
C15_NoArbitraryWinner ==
    Returned("match") =>
        /\ \A other \in Reorderings(call.candidates) :
               AdaptiveSimilarityMatch(call.title_key, other) = ret.value
        /\ (call.title_key # <<>>
                /\ Cardinality(Overlapping(call.title_key, call.candidates)) > 1)
               => ~ret.value.found

\* The candidate of the first of the thresholds 0.95, 0.90, ... at which
\* exactly one candidate qualifies (the empty set if there is none).
FirstIsolated(title_key, candidates) ==
    {path \in Range(Titled(candidates)) :
         \E t \in Thresholds :
             /\ Qualifying(title_key, candidates, t) = {path}
             /\ \A u \in Thresholds :
                    u > t => Cardinality(Qualifying(title_key, candidates, u)) # 1}

\* C16: when no candidate overlaps the title, the matcher returns the
\* candidate of the first threshold of 0.95, 0.90, 0.85, ... at which exactly
\* one candidate scores at least the threshold, with the score of that
\* candidate.
C16_DescendingThresholdSearch ==
    (Returned("match") /\ call.title_key # <<>>
         /\ Overlapping(call.title_key, call.candidates) = {})
        => \A path \in FirstIsolated(call.title_key, call.candidates) :
               ret.value = Match(path, ScoreOf(call.title_key, path))

\* Two candidates were scored, none at 0.95 or more and one of them alone at
\* 0.90 or more, and that one was returned.
C16_Witness ==
    /\ Returned("match")
    /\ Overlapping(call.title_key, call.candidates) = {}
    /\ Len(Titled(call.candidates)) = 2
    /\ Qualifying(call.title_key, call.candidates, SimilarityStart) = {}
    /\ Cardinality(Qualifying(call.title_key, call.candidates,
                              SimilarityStart - SimilarityStep)) = 1
    /\ ret.value.found
    /\ ret.value.path \in Qualifying(call.title_key, call.candidates,
                                     SimilarityStart - SimilarityStep)

\* Every candidate that has a title, with its score.
ScoredAll(title_key, candidates) ==
    [i \in 1..Len(Titled(candidates)) |->
         [path |-> Titled(candidates)[i], score |-> ScoreOf(title_key, Titled(candidates)[i])]]

\* C17: if exactly one candidate matches at a threshold and exactly one at a
\* lower threshold, it is the same candidate, and the matcher returns that
\* candidate or no match.
C17_DisambiguationMonotone ==
    (Returned("match") /\ call.title_key # <<>>
         /\ Overlapping(call.title_key, call.candidates) = {})
        => LET scored == ScoredAll(call.title_key, call.candidates)
               isolating == {t \in {SimilarityStart - i * (SimilarityStep \div 4) : i \in 0..40} :
                                Len(MatchesAt(scored, t)) = 1}
           IN  /\ \A t, u \in isolating : MatchesAt(scored, t) = MatchesAt(scored, u)
               /\ \A t \in isolating :
                      ret.value.found => ret.value.path = MatchesAt(scored, t)[1].path

\* One candidate alone scores 0.95 or more, another one scores between 0.90
\* and 0.95, and the first one was returned.
C17_Witness ==
    /\ Returned("match")
    /\ Overlapping(call.title_key, call.candidates) = {}
    /\ Cardinality(Qualifying(call.title_key, call.candidates, SimilarityStart)) = 1
    /\ Cardinality(Qualifying(call.title_key, call.candidates,
                              SimilarityStart - SimilarityStep)) = 2
    /\ ret.value.found
    /\ ret.value.path \in Qualifying(call.title_key, call.candidates, SimilarityStart)

\* C18: if a candidate overlaps the title, the matcher returns an overlapping
\* candidate with the score 1.0, and a candidate returned with the score 1.0
\* overlaps the title.
C18_OverlapShortCircuit ==
    Returned("match") =>
        /\ (call.title_key # <<>> /\ Overlapping(call.title_key, call.candidates) # {})
               => /\ ret.value.found
                  /\ ret.value.score = Score(1, 1)
                  /\ ret.value.path \in Overlapping(call.title_key, call.candidates)
        /\ (ret.value.found /\ ret.value.score.num = ret.value.score.den)
               => ret.value.path \in Overlapping(call.title_key, call.candidates)

\* A candidate that overlaps the title was returned although a candidate
\* before it in the pool was scored.
C18_Witness ==
    /\ Returned("match")
    /\ Len(call.candidates) = 2
    /\ CandidateTitle(call.candidates[1]) # <<>>
    /\ call.candidates[1] \notin Overlapping(call.title_key, call.candidates)
    /\ ret.value = Match(call.candidates[2], Score(1, 1))

(***************************************************************************)
(* The overlap test is called with two normalized titles.                  *)
(***************************************************************************)
\* "", "ab cd", "cd ef", "ab cd ef", "ab cd ef gh", "ab cd ef gh ij", and
\* three titles of three tokens with 23, 24 and 25 characters, each a prefix
\* of the next.
NormalizedTitles ==
    { <<>>,
      <<1, 2, 0, 3, 4>>,
      <<3, 4, 0, 5, 6>>,
      <<1, 2, 0, 3, 4, 0, 5, 6>>,
      <<1, 2, 0, 3, 4, 0, 5, 6, 0, 7, 8>>,
      <<1, 2, 0, 3, 4, 0, 5, 6, 0, 7, 8, 0, 9, 10>>,
      <<1, 2, 3, 4, 5, 6, 7, 8, 0, 1, 2, 3, 4, 5, 6, 7, 8, 0, 1, 2, 3, 4, 5>>,
      <<1, 2, 3, 4, 5, 6, 7, 8, 0, 1, 2, 3, 4, 5, 6, 7, 8, 0, 1, 2, 3, 4, 5, 6>>,
      <<1, 2, 3, 4, 5, 6, 7, 8, 0, 1, 2, 3, 4, 5, 6, 7, 8, 0, 1, 2, 3, 4, 5, 6, 7>> }

InitOverlap ==
    /\ db = [l \in Locs |-> IF l = 1 THEN EmptyTables ELSE NoTables]
    /\ static = [l \in Locs |-> IF l = 1 THEN EmptyDir ELSE NoDir]
    /\ pc = "idle"
    /\ conn = NoTables
    /\ outDb = 1
    /\ outStatic = 1
    /\ srcDb = 1
    /\ written = {}
    /\ nrec = 0
    /\ looped = FALSE
    /\ passes = 0
    /\ NoWriters
    /\ \E a \in NormalizedTitles, b \in NormalizedTitles :
           call = [fn |-> "overlap", a |-> a, b |-> b]
    /\ ret = [done |-> FALSE]

OverlapTest ==
    /\ Pending("overlap")
    /\ ret' = [done |-> TRUE, value |-> TitleOverlapMatch(call.a, call.b)]
    /\ UNCHANGED <<call, passVars, writerVars>>

NextOverlap == OverlapTest

SpecOverlap == InitOverlap /\ [][NextOverlap]_vars

\* The title a is shorter than b and b starts with a.
StrictPrefix(a, b) == Len(a) < Len(b) /\ SubSeq(b, 1, Len(a)) = a

\* The title is too short to overlap anything but itself.
ShortTitle(a) ==
    /\ a # <<>>
    /\ Len(a) < TitleMinChars
    /\ Cardinality({i \in 1..Len(a) : a[i] = 0}) + 1 < TitleMinTokens

\* C19: two different titles overlap only if one contains the other and the
\* shorter one has at least 24 characters or at least 4 tokens; a short title
\* that is a strict prefix of the other does not overlap it, and the matcher
\* does not return the other with the score 1.0 of an overlap.
C19_OverlapGuard ==
    Returned("overlap") =>
        LET a == call.a
            b == call.b
            shorter == IF Len(a) <= Len(b) THEN a ELSE b
            longer == IF Len(a) <= Len(b) THEN b ELSE a
        IN  /\ (a # b /\ ret.value)
                   => /\ \E i \in 1..Len(longer) :
                             SubSeq(longer, i, i + Len(shorter) - 1) = shorter
                      /\ \/ Len(shorter) >= TitleMinChars
                         \/ Cardinality({i \in 1..Len(shorter) : shorter[i] = 0}) + 1
                                >= TitleMinTokens
            /\ (ShortTitle(shorter) /\ StrictPrefix(shorter, longer))
                   => /\ ~ret.value
                      /\ AdaptiveSimilarityMatch(a, <<b>>).score # Score(1, 1)

\* The test was made for a title of three tokens and 23 characters and a
\* title that continues it.
C19_Witness ==
    /\ Returned("overlap")
    /\ Len(call.a) = TitleMinChars - 1
    /\ ShortTitle(call.a)
    /\ StrictPrefix(call.a, call.b)
    /\ ~ret.value

(***************************************************************************)
(* The file index and the resolution of a paper to one file (db_match.py). *)
(* A key of the index is a prefix ("", "compact:", "prefix:", "year:") and *)
(* a text; the files under a key are listed in the order they were         *)
(* indexed.  The file names of the model start with the year or with the   *)
(* title, so that no file has an author hint and no authoryear: key.       *)
(***************************************************************************)
Key(tag, text) == [tag |-> tag, text |-> text]

CompactTitleKey(title_key) == SelectSeq(title_key, LAMBDA c : c # 0)

RECURSIVE DropNumericTokens(_)
DropNumericTokens(tokens) ==
    IF tokens = <<>> THEN tokens
    ELSE IF (\A i \in 1..Len(tokens[1]) : IsDigit(tokens[1][i]))
                /\ Len(tokens[1]) <= LeadingNumericMaxLen
         THEN DropNumericTokens(Tail(tokens))
    ELSE tokens

StripLeadingNumericTokens(title_key) ==
    IF DropNumericTokens(Split(title_key)) = Split(title_key) THEN title_key
    ELSE Join(DropNumericTokens(Split(title_key)))

\* The set with the prefix key of the title, empty when it has none.
TitlePrefixKey(title_key) ==
    IF Len(Split(title_key)) < TitleMinTokens THEN {}
    ELSE IF Len(CompactTitleKey(title_key)) < TitlePrefixLen THEN {}
    ELSE {Key("prefix:", SubSeq(CompactTitleKey(title_key), 1, TitlePrefixLen))}

\* The year hint of a file name, <<>> when it has none.
YearHint(name) == IF name # <<>> /\ name[1] = 22 THEN <<2020>> ELSE <<>>

\* The keys a file is indexed under.
IndexKeys(name) ==
    LET title_key == NormalizeTitleKey(ExtractTitleFromFilename(name))
        stripped_key == StripLeadingNumericTokens(title_key)
    IN  {Key("", name)}
            \cup (IF title_key = <<>> THEN {}
                  ELSE {Key("", title_key), Key("compact:", CompactTitleKey(title_key))}
                           \cup TitlePrefixKey(title_key)
                           \cup (IF stripped_key # <<>> /\ stripped_key # title_key
                                 THEN {Key("", stripped_key),
                                       Key("compact:", CompactTitleKey(stripped_key))}
                                          \cup TitlePrefixKey(stripped_key)
                                 ELSE {}))
            \cup (IF YearHint(name) # <<>> THEN {Key("year:", YearHint(name))} ELSE {})

\* The index of the files with the suffix .md: under each key, the files in
\* the order they are visited.
BuildFileIndex(paths) ==
    LET files == SelectSeq(paths, LAMBDA name : name # <<>> /\ name[Len(name)] = 21)
        keys == [i \in 1..Len(files) |-> IndexKeys(files[i])]
    IN  [key \in UNION {keys[i] : i \in 1..Len(files)} |->
             SelectSeq(files, LAMBDA name : \E i \in 1..Len(files) :
                                               files[i] = name /\ key \in keys[i])]

\* file_index.get(key, [])
IndexGet(file_index, key) == IF key \in DOMAIN file_index THEN file_index[key] ELSE <<>>

Resolved(path, match_type, score) ==
    [found |-> TRUE, path |-> path, match_type |-> match_type, score |-> score]

Unresolved == [found |-> FALSE, path |-> <<>>, match_type |-> "", score |-> Score(0, 1)]

\* The part of _resolve_by_title_and_meta after the title lookups: the files
\* of the year of the paper.
ResolveByYear(paper, title_key, file_index) ==
    LET candidates == IndexGet(file_index, Key("year:", paper.year))
        m == AdaptiveSimilarityMatch(title_key, candidates)
    IN  IF paper.year = <<>> THEN Unresolved
        ELSE IF candidates = <<>> THEN Unresolved
        ELSE IF Len(candidates) = 1 /\ title_key = <<>>
             THEN Resolved(candidates[1], "year", Score(1, 1))
        ELSE IF m.found /\ ScoreAtLeast(m.score, AuthorYearMinSimilarity)
             THEN Resolved(m.path, "title_fuzzy", m.score)
        ELSE Unresolved

\* The files under the prefix key of the title or, when there are none, of
\* the title without its leading numbers.
PrefixCandidates(title_key, file_index) ==
    LET stripped_key == StripLeadingNumericTokens(title_key)
        prefix_keys == <<TitlePrefixKey(title_key),
                         IF stripped_key # <<>> /\ stripped_key # title_key
                         THEN TitlePrefixKey(stripped_key) ELSE {}>>
        found == [i \in 1..2 |-> IF prefix_keys[i] = {} THEN <<>>
                                  ELSE IndexGet(file_index, CHOOSE k \in prefix_keys[i] : TRUE)]
    IN  IF found[1] # <<>> THEN found[1] ELSE found[2]

ResolveByTitleAndMeta(paper, file_index) ==
    LET title_key == NormalizeTitleKey(paper.paper_title)
        candidates == IndexGet(file_index, Key("", title_key))
        compact_candidates == IndexGet(file_index, Key("compact:", CompactTitleKey(title_key)))
        stripped_key == StripLeadingNumericTokens(title_key)
        has_stripped == stripped_key # <<>> /\ stripped_key # title_key
        stripped_candidates == IndexGet(file_index, Key("", stripped_key))
        stripped_compact == IndexGet(file_index, Key("compact:", CompactTitleKey(stripped_key)))
        prefix_candidates == PrefixCandidates(title_key, file_index)
        m == AdaptiveSimilarityMatch(title_key, prefix_candidates)
    IN  IF candidates # <<>> THEN Resolved(candidates[1], "title", Score(1, 1))
        ELSE IF title_key # <<>> /\ compact_candidates # <<>>
             THEN Resolved(compact_candidates[1], "title_compact", Score(1, 1))
        ELSE IF title_key # <<>> /\ has_stripped /\ stripped_candidates # <<>>
             THEN Resolved(stripped_candidates[1], "title_stripped", Score(1, 1))
        ELSE IF title_key # <<>> /\ has_stripped /\ stripped_compact # <<>>
             THEN Resolved(stripped_compact[1], "title_compact", Score(1, 1))
        ELSE IF prefix_candidates # <<>> /\ m.found
             THEN Resolved(m.path,
                           IF m.score.num >= m.score.den THEN "title_prefix" ELSE "title_fuzzy",
                           m.score)
        ELSE ResolveByYear(paper, title_key, file_index)

\* A variant of ResolveSourceMd that asks for the title before the source path.
ResolveTitleFirst(paper, md_index) ==
    LET candidates == IndexGet(md_index, Key("", paper.source_path))
        r == ResolveByTitleAndMeta(paper, md_index)
    IN  IF r.found THEN [found |-> TRUE, path |-> r.path]
        ELSE IF paper.source_path # <<>> /\ candidates # <<>>
        THEN [found |-> TRUE, path |-> candidates[1]]
        ELSE [found |-> FALSE, path |-> <<>>]

\* The file of the source path of the paper, or else the file resolved by
\* title and year.
ResolveSourceMd(paper, md_index) ==
    LET candidates == IndexGet(md_index, Key("", paper.source_path))
        r == ResolveByTitleAndMeta(paper, md_index)
    IN  IF paper.source_path # <<>> /\ candidates # <<>>
        THEN [found |-> TRUE, path |-> candidates[1]]
        ELSE [found |-> r.found, path |-> r.path]

MaxIndexed == 2

\* ab_cd_ef_gh.md, ab_cd__ef_gh.md, 2020-abcd_efgh_ijkl_mnop.md,
\* abcd_efgh_ijkl_mnopq.md, 77_ab_cd_ef_gh.md, ab_cd_ef_gh
IndexedFiles ==
    { <<1, 2, 20, 3, 4, 20, 5, 6, 20, 7, 8, 21>>,
      <<1, 2, 20, 3, 4, 20, 20, 5, 6, 20, 7, 8, 21>>,
      <<22, 1, 2, 3, 4, 20, 5, 6, 7, 8, 20, 9, 10, 11, 12, 20, 13, 14, 15, 16, 21>>,
      <<1, 2, 3, 4, 20, 5, 6, 7, 8, 20, 9, 10, 11, 12, 20, 13, 14, 15, 16, 17, 21>>,
      <<19, 19, 20, 1, 2, 20, 3, 4, 20, 5, 6, 20, 7, 8, 21>>,
      <<1, 2, 20, 3, 4, 20, 5, 6, 20, 7, 8>> }

\* The papers: the title "ab cd ef gh", "abcd efgh ijkl mnopr", "abcdefgh" or
\* none, the year 2020 or none, the source path ab_cd_ef_gh.md or none.
MatchedPapers ==
    [paper_title : { <<1, 2, 0, 3, 4, 0, 5, 6, 0, 7, 8>>,
                     <<1, 2, 3, 4, 0, 5, 6, 7, 8, 0, 9, 10, 11, 12, 0, 13, 14, 15, 16, 18>>,
                     <<1, 2, 3, 4, 5, 6, 7, 8>>,
                     <<>> },
     year : {<<>>, <<2020>>},
     source_path : {<<>>, <<1, 2, 20, 3, 4, 20, 5, 6, 20, 7, 8, 21>>}]

InitResolve ==
    /\ db = [l \in Locs |-> IF l = 1 THEN EmptyTables ELSE NoTables]
    /\ static = [l \in Locs |-> IF l = 1 THEN EmptyDir ELSE NoDir]
    /\ pc = "idle"
    /\ conn = NoTables
    /\ outDb = 1
    /\ outStatic = 1
    /\ srcDb = 1
    /\ written = {}
    /\ nrec = 0
    /\ looped = FALSE
    /\ passes = 0
    /\ NoWriters
    /\ \E paper \in MatchedPapers, paths \in ListsOf(IndexedFiles, MaxIndexed) :
           call = [fn |-> "resolve", paper |-> paper, paths |-> paths]
    /\ ret = [done |-> FALSE]

Resolve ==
    /\ Pending("resolve")
    /\ ret' = [done |-> TRUE, value |-> ResolveSourceMd(call.paper, BuildFileIndex(call.paths))]
    /\ UNCHANGED <<call, passVars, writerVars>>

NextResolve == Resolve

SpecResolve == InitResolve /\ [][NextResolve]_vars

\* C20: the file a paper resolves to does not depend on the order in which
\* the files were indexed.
C20_ResolvedByMatcherNotOrder ==
    Returned("resolve") =>
        \A other \in Reorderings(call.paths) :
            ResolveSourceMd(call.paper, BuildFileIndex(other)) = ret.value

\* What each strategy of the resolution finds for a paper, as a list with
\* one path or with none, in the order the strategies are named: the file
\* name of the source path, the title, the compact title, the title without
\* its leading numbers, the files under the prefix key, the files of the year.
Strategies(paper, file_index) ==
    LET title_key == NormalizeTitleKey(paper.paper_title)
        stripped_key == StripLeadingNumericTokens(title_key)
        First(list) == IF list = <<>> THEN <<>> ELSE <<list[1]>>
        Found(m) == IF m.found THEN <<m.path>> ELSE <<>>
        by_stripped == IndexGet(file_index, Key("", stripped_key))
                           \o IndexGet(file_index, Key("compact:", CompactTitleKey(stripped_key)))
    IN  << IF paper.source_path = <<>> THEN <<>>
           ELSE First(IndexGet(file_index, Key("", paper.source_path))),
           First(IndexGet(file_index, Key("", title_key))),
           IF title_key = <<>> THEN <<>>
           ELSE First(IndexGet(file_index, Key("compact:", CompactTitleKey(title_key)))),
           IF title_key = <<>> \/ stripped_key = <<>> \/ stripped_key = title_key THEN <<>>
           ELSE First(by_stripped),
           Found(AdaptiveSimilarityMatch(title_key, PrefixCandidates(title_key, file_index))),
           Found(ResolveByYear(paper, title_key, file_index)) >>

\* C21: the path a paper resolves to is the one of the first strategy, in the
\* order source path, title, compact title, stripped title, prefix key, year,
\* that finds a path, and there is no path when no strategy finds one.
C21_StrategiesInOrder ==
    Returned("resolve") =>
        LET found == Strategies(call.paper, BuildFileIndex(call.paths))
            hits == {i \in 1..Len(found) : found[i] # <<>>}
        IN  IF hits = {} THEN ~ret.value.found
            ELSE ret.value = [found |-> TRUE, path |-> found[Min(hits)][1]]

\* A paper was resolved through the prefix key after the source path and the
\* three title lookups found nothing.
C21_Witness ==
    /\ Returned("resolve")
    /\ call.paper.source_path # <<>>
    /\ LET found == Strategies(call.paper, BuildFileIndex(call.paths))
       IN  /\ \A i \in 1..4 : found[i] = <<>>
           /\ found[5] # <<>>
           /\ ret.value = [found |-> TRUE, path |-> found[5][1]]

\* C22: a failure while a record is handled does not abort the pass: a pass
\* that has handled a record ends with what it did for the records of the
\* batch committed to the output database.
C22_FailureIsolated ==
    [][(pc # "idle" /\ looped /\ pc' = "idle") => db'[outDb] = conn]_vars


(***************************************************************************)
(* Supplement passes over records that carry a source hash.                *)
(***************************************************************************)
\* Records of works 1 and 3 with source hash 5, a record of work 3 that
\* carries the hash of markdown content 1, and records of work 3 that name
\* paper 7, without a source hash and with source hash 5.
HashRecords ==
    { r \in [ paper_id : {0, 7}, doi : {0}, bib : {0}, work : {w \in Works : w.title # 2},
              source_hash : {0, 5, HashBytes(1)}, prompt_template : {"Deep Read"}, body : {1} ] :
        /\ r.paper_id # 0 => (r.work.title = 3 /\ r.source_hash # HashBytes(1))
        /\ r.paper_id = 0 => r.source_hash # 0
        /\ r.work.title = 1 => r.source_hash = 5 }

\* A source markdown file or none, nothing else.
MarkdownAssets == {a \in UpdateAssets : a.pdf = 0 /\ a.md # 2 /\ a.translated = {}}

NextHashes == NextOf(HashRecords, MarkdownAssets, NoFound, MaxPasses, ManyRecords)

SpecHashes == Init /\ [][NextHashes]_vars

\* The papers of a table that answer to the record's hash: those with that
\* source_hash, and only when there is none those with that
\* source_md_content_hash.
AnswerToHash(c, paper) ==
    LET by_source == {p.paper_id : p \in {q \in c.paper : q.source_hash = paper.source_hash}}
        by_md == {p.paper_id : p \in {q \in c.paper : q.source_md_content_hash = paper.source_hash}}
    IN IF by_source # {} THEN by_source ELSE by_md

\* The record carries a paper_id that has a row in the paper table.
NamesExistingPaper(c, paper) ==
    paper.paper_id # 0 /\ \E p \in c.paper : p.paper_id = paper.paper_id

\* The summary row of a paper under the record's template tag.
SummaryRow(paper_id, paper) ==
    [paper_id |-> paper_id, template_tag |-> SupplementTemplateTag(paper)]

\* C23: a supplement record with a source hash that does not name an existing
\* paper by an explicit paper_id is resolved to the papers with that
\* source_hash or, when there is none, to those with that
\* source_md_content_hash; the step for the record leaves a paper_summary row
\* (paper, template tag of the record) for each of them, later steps keep it,
\* and the commit at the end of the pass writes it to the output database.
C23_ResolvedBySourceHash ==
    [][ /\ pc = "supplement" =>
             \A paper \in HashRecords :
                (paper.source_hash # 0 /\ ~NamesExistingPaper(conn, paper)
                    /\ AnswerToHash(conn, paper) # {})
                => /\ ResolveExistingPaperIds(conn, paper) = AnswerToHash(conn, paper)
                   /\ SupplementRecordOf(paper, <<>>) =>
                        \A p \in AnswerToHash(conn, paper) : SummaryRow(p, paper) \in conn'.summary
        /\ (pc = "supplement" /\ pc' = "supplement") => conn.summary \subseteq conn'.summary
        /\ (pc = "supplement" /\ Commit) => conn.summary \subseteq db'[outDb].summary ]_vars

\* A supplement pass has added the summary of a record to a paper that no
\* source_hash but its source_md_content_hash answers to, and that the
\* record's keys do not lead to.
C23_Witness ==
    /\ pc = "supplement"
    /\ looped
    /\ \E paper \in HashRecords : \E p \in db[srcDb].paper :
         /\ paper.source_hash # 0
         /\ paper.paper_id = 0
         /\ \A q \in db[srcDb].paper : q.source_hash # paper.source_hash
         /\ p.source_md_content_hash = paper.source_hash
         /\ p.paper_id \notin ResolveTrustingExplicitId(db[srcDb], paper)
         /\ SummaryRow(p.paper_id, paper) \in conn.summary \ db[srcDb].summary

\* The statement of C23 for every record with a source hash, also one that
\* names an existing paper by its paper_id.
C23_EveryRecordByHash ==
    [][ pc = "supplement" =>
          \A paper \in HashRecords :
             (paper.source_hash # 0 /\ AnswerToHash(conn, paper) # {}
                 /\ SupplementRecordOf(paper, <<>>))
             => \A p \in AnswerToHash(conn, paper) : SummaryRow(p, paper) \in conn'.summary ]_vars


\* C24: when the hash of a supplement record resolves it to several papers,
\* the step for the record adds the summary row of the record's template tag
\* to each of those papers that does not have it and to no other paper;
\* afterwards each of those papers has that row, a paper that got the row
\* has exactly one summary file under the tag, which holds the record, and a
\* paper that had the row has the files it had: exactly one whenever the
\* row of the snapshot had its file.
C24_SupplementFanOut ==
    [][ pc = "supplement" =>
          \A paper \in HashRecords :
             LET paper_ids == AnswerToHash(conn, paper)
                 before == static[outStatic].summary
                 files == static'[outStatic].summary
             IN (paper.source_hash # 0 /\ ~NamesExistingPaper(conn, paper)
                    /\ Cardinality(paper_ids) > 1 /\ SupplementRecordOf(paper, <<>>))
                => /\ conn'.summary \ conn.summary
                        = {SummaryRow(p, paper) : p \in paper_ids} \ conn.summary
                   /\ \A p \in paper_ids :
                        /\ SummaryRow(p, paper) \in conn'.summary
                        /\ IF SummaryRow(p, paper) \in conn.summary
                           THEN SummaryFilesOf(files, SummaryRow(p, paper))
                                    = SummaryFilesOf(before, SummaryRow(p, paper))
                           ELSE /\ Cardinality(SummaryFilesOf(files, SummaryRow(p, paper))) = 1
                                /\ \A f \in SummaryFilesOf(files, SummaryRow(p, paper)) :
                                       f.data = JsonText(paper)
                        /\ SummaryFilesOf(before, SummaryRow(p, paper)) # {} =>
                             Cardinality(SummaryFilesOf(files, SummaryRow(p, paper))) = 1 ]_vars

\* A supplement pass has added the summary of one record to two papers that
\* share the source_md_content_hash the record carries.
C24_Witness ==
    /\ pc = "supplement"
    /\ looped
    /\ \E paper \in HashRecords : \E p, q \in db[srcDb].paper :
         /\ p.paper_id # q.paper_id
         /\ paper.source_hash # 0
         /\ \A o \in db[srcDb].paper : o.source_hash # paper.source_hash
         /\ p.source_md_content_hash = paper.source_hash
         /\ q.source_md_content_hash = paper.source_hash
         /\ {SummaryRow(p.paper_id, paper), SummaryRow(q.paper_id, paper)}
                \subseteq conn.summary \ db[srcDb].summary


(***************************************************************************)
(* The threshold search of _adaptive_similarity_match, one iteration of    *)
(* its loops at a time, on the list of scored candidates the scoring loop  *)
(* leaves.  ret holds the local variables; tested and mids count the       *)
(* iterations of the outer and of the inner loop.                          *)
(***************************************************************************)
MaxScored == 2

\* Scores of titles: 0.95, 10/11 and 11/12 (both between 0.90 and 0.95),
\* 208/231 and 226/251 (two titles of 115 characters against candidates of
\* 116 and 136; they differ by less than 0.05 / 2^10), 0.625, 0.5 and 0.4.
Scores ==
    { Score(19, 20), Score(10, 11), Score(11, 12), Score(208, 231), Score(226, 251),
      Score(5, 8), Score(1, 2), Score(2, 5) }

\* The scored lists: the i-th candidate is the file <<i>>.
ScoredLists ==
    UNION {[1..k -> Scores] : k \in 1..MaxScored}

ScoredOf(scores) == [i \in 1..Len(scores) |-> [path |-> <<i>>, score |-> scores[i]]]

InitSearch ==
    /\ db = [l \in Locs |-> IF l = 1 THEN EmptyTables ELSE NoTables]
    /\ static = [l \in Locs |-> IF l = 1 THEN EmptyDir ELSE NoDir]
    /\ pc = "idle"
    /\ conn = NoTables
    /\ outDb = 1
    /\ outStatic = 1
    /\ srcDb = 1
    /\ written = {}
    /\ nrec = 0
    /\ looped = FALSE
    /\ passes = 0
    /\ NoWriters
    /\ \E scores \in ScoredLists : call = [fn |-> "search", scored |-> ScoredOf(scores)]
    /\ ret = [done |-> FALSE, value |-> NoMatch, loop |-> "thresholds",
              threshold |-> SimilarityStart, prev_threshold |-> 0, prev_count |-> -1,
              low |-> 0, high |-> 0, tested |-> 0, mids |-> 0]

\* Variant: of several candidates at a threshold the first one is returned.
TestThresholdFirstOfMany ==
    LET matches == MatchesAt(call.scored, ret.threshold)
    IN  /\ Pending("search")
        /\ ret.loop = "thresholds"
        /\ ret' = IF ret.tested = SimilarityMaxSteps
                  THEN [ret EXCEPT !.done = TRUE, !.value = NoMatch]
                  ELSE IF Len(matches) >= 1
                  THEN [ret EXCEPT !.done = TRUE, !.tested = @ + 1,
                                   !.value = Match(matches[1].path, matches[1].score)]
                  ELSE [ret EXCEPT !.prev_threshold = ret.threshold, !.prev_count = 0,
                                   !.threshold = @ - SimilarityStep, !.tested = @ + 1]
        /\ UNCHANGED <<call, passVars, writerVars>>

\* One iteration of `for _ in range(_SIMILARITY_MAX_STEPS)`, or its end.
TestThreshold ==
    LET matches == MatchesAt(call.scored, ret.threshold)
    IN  /\ Pending("search")
        /\ ret.loop = "thresholds"
        /\ ret' = IF ret.tested = SimilarityMaxSteps
                  THEN [ret EXCEPT !.done = TRUE, !.value = NoMatch]
                  ELSE IF Len(matches) = 1
                  THEN [ret EXCEPT !.done = TRUE, !.tested = @ + 1,
                                   !.value = Match(matches[1].path, matches[1].score)]
                  ELSE IF Len(matches) = 0
                  THEN [ret EXCEPT !.prev_threshold = ret.threshold, !.prev_count = 0,
                                   !.threshold = @ - SimilarityStep, !.tested = @ + 1]
                  ELSE IF ret.prev_count = 0 /\ ret.prev_threshold # 0
                  THEN [ret EXCEPT !.loop = "midpoints", !.low = ret.threshold,
                                   !.high = ret.prev_threshold, !.tested = @ + 1]
                  ELSE [ret EXCEPT !.prev_threshold = ret.threshold,
                                   !.prev_count = Len(matches),
                                   !.threshold = @ - SimilarityStep, !.tested = @ + 1]
        /\ UNCHANGED <<call, passVars, writerVars>>

\* Variant: the bounds move the other way.
BisectInverted(scored, low, high) ==
    LET mid == (low + high) \div 2
        mid_matches == MatchesAt(scored, mid)
    IN  IF Len(mid_matches) = 1
        THEN [hit |-> Match(mid_matches[1].path, mid_matches[1].score), low |-> low, high |-> high]
        ELSE IF Len(mid_matches) = 0 THEN [hit |-> NoMatch, low |-> mid, high |-> high]
        ELSE [hit |-> NoMatch, low |-> low, high |-> mid]

\* The body of the inner loop: the candidate the midpoint isolates, or else
\* the halved interval.
Bisect(scored, low, high) ==
    LET mid == (low + high) \div 2
        mid_matches == MatchesAt(scored, mid)
    IN  IF Len(mid_matches) = 1
        THEN [hit |-> Match(mid_matches[1].path, mid_matches[1].score), low |-> low, high |-> high]
        ELSE IF Len(mid_matches) = 0 THEN [hit |-> NoMatch, low |-> low, high |-> mid]
        ELSE [hit |-> NoMatch, low |-> mid, high |-> high]

\* One iteration of the inner loop, or its end.
TestMidpoint ==
    LET b == Bisect(call.scored, ret.low, ret.high)
    IN  /\ Pending("search")
        /\ ret.loop = "midpoints"
        /\ ret' = IF ret.mids = SimilarityMaxSteps
                  THEN [ret EXCEPT !.done = TRUE, !.value = NoMatch]
                  ELSE IF b.hit.found
                  THEN [ret EXCEPT !.done = TRUE, !.value = b.hit, !.mids = @ + 1]
                  ELSE [ret EXCEPT !.low = b.low, !.high = b.high, !.mids = @ + 1]
        /\ UNCHANGED <<call, passVars, writerVars>>

NextSearch == TestThreshold \/ TestMidpoint

\* Both loops are plain code that runs on: a step that can be taken is taken.
SpecSearch == InitSearch /\ [][NextSearch]_vars /\ WF_vars(NextSearch)

\* 2^n
RECURSIVE Pow2(_)
Pow2(n) == IF n = 0 THEN 1 ELSE 2 * Pow2(n - 1)

\* The thresholds strictly between two tested thresholds, in steps of
\* 0.05 / 2^10, that exactly one candidate reaches.
IsolatingBetween(scored, low, high) ==
    {m \in (low + 1)..(high - 1) : Len(MatchesAt(scored, m)) = 1}

\* C25: the inner search starts between a tested threshold that no candidate
\* reaches and the next lower one, which several reach; it runs at most 10
\* iterations, each of which halves the interval, keeping an upper bound that
\* no candidate reaches and a lower bound that several reach; it returns a
\* candidate exactly when one of the 2^10 - 1 thresholds it can test isolates
\* one, and that candidate; otherwise it returns no match after 10
\* iterations, and the outer loop is not resumed.
C25_BinarySearchRefinement ==
    (call.fn = "search" /\ ret.loop = "midpoints") =>
        /\ ret.mids <= SimilarityMaxSteps
        /\ ret.prev_threshold = ret.threshold + SimilarityStep
        /\ ret.threshold <= ret.low /\ ret.high <= ret.prev_threshold
        /\ ~ret.done => /\ (ret.high - ret.low) * Pow2(ret.mids) = SimilarityStep
                        /\ Len(MatchesAt(call.scored, ret.high)) = 0
                        /\ Len(MatchesAt(call.scored, ret.low)) > 1
        /\ ret.done =>
             LET isolating == IsolatingBetween(call.scored, ret.threshold, ret.prev_threshold)
             IN  IF isolating = {}
                 THEN ~ret.value.found /\ ret.mids = SimilarityMaxSteps
                 ELSE \A m \in isolating :
                         ret.value = Match(MatchesAt(call.scored, m)[1].path,
                                           MatchesAt(call.scored, m)[1].score)

\* The inner search ended without a match after 10 iterations although one
\* candidate scores more than the other.
C25_Witness ==
    /\ Returned("search")
    /\ ret.loop = "midpoints"
    /\ ret.mids = SimilarityMaxSteps
    /\ ~ret.value.found
    /\ Len(call.scored) = 2
    /\ call.scored[1].score.num * call.scored[2].score.den
           # call.scored[2].score.num * call.scored[1].score.den


\* a < b for scores
ScoreBelow(a, b) == a.num * b.den < b.num * a.den

\* The lowest threshold the outer loop tests: 0.95 - 9 * 0.05.
LowestThreshold == SimilarityStart - (SimilarityMaxSteps - 1) * SimilarityStep

\* C26: the threshold search tests at most 10 thresholds and at most 10
\* midpoints and then returns; a candidate it returns scores strictly more
\* than every other scored candidate and at least the lowest tested
\* threshold; candidates that all score less than the lowest tested
\* threshold yield no match; and the result is the one the matcher computes
\* from the scored candidates.
C26_ThresholdSearchSound ==
    /\ [](call.fn = "search" =>
            /\ ret.tested <= SimilarityMaxSteps
            /\ ret.mids <= SimilarityMaxSteps
            /\ ret.done =>
                 /\ ret.value = ThresholdSearch(call.scored, SimilarityStart, -1,
                                                SimilarityMaxSteps)
                 /\ ret.value.found =>
                      /\ ScoreAtLeast(ret.value.score, LowestThreshold)
                      /\ \E i \in 1..Len(call.scored) :
                            /\ call.scored[i] = [path |-> ret.value.path,
                                                 score |-> ret.value.score]
                            /\ \A j \in 1..Len(call.scored) :
                                  j # i => ScoreBelow(call.scored[j].score, ret.value.score)
                 /\ (\A i \in 1..Len(call.scored) :
                        ~ScoreAtLeast(call.scored[i].score, LowestThreshold))
                      => ~ret.value.found)
    /\ <>(call.fn = "search" /\ ret.done)

\* The search returned the second of two candidates after it had tested
\* several thresholds and several midpoints.
C26_Witness ==
    /\ Returned("search")
    /\ ret.value.found
    /\ Len(call.scored) = 2
    /\ ret.value.path = <<2>>
    /\ ret.tested > 1
    /\ ret.mids > 1


\* C27: a pass that writes to an output database other than the snapshot it
\* reads leaves the database and the static export directory of that
\* snapshot as they are, from the copy at its start to its end.
C27_SourceUntouched ==
    [][ /\ (pc = "idle" /\ pc' # "idle" /\ outDb' # srcDb') =>
             (db'[srcDb'] = db[srcDb'] /\ static'[srcDb'] = static[srcDb'])
        /\ (pc # "idle" /\ outDb # srcDb) =>
             (db'[srcDb] = db[srcDb] /\ static'[srcDb] = static[srcDb]) ]_vars


\* C28: the step of an update pass for a record whose resolved paper_id has
\* a row in the paper table changes neither the tables nor the files,
\* whatever template, body and files the record brings; the step for any
\* other record adds the row of the resolved paper_id and no other.
C28_ExistingPaperUntouched ==
    [][ (pc = "update" /\ pc' = "update") =>
          \A paper \in TemplateRecords : \A assets \in FewAssets :
             UpdateRecordOf(paper, assets) =>
               LET r == ResolvePaperIdentity(conn.alias, paper)
               IN  IF PaperExists(conn, r.paper_id)
                   THEN conn' = conn /\ static' = static
                   ELSE {p.paper_id : p \in conn'.paper}
                            = {p.paper_id : p \in conn.paper} \cup {r.paper_id} ]_vars

\* An update pass has processed a record on a snapshot whose paper lacks a
\* template that a record of that paper carries, and has changed nothing.
C28_Witness ==
    /\ pc = "update"
    /\ looped
    /\ conn.paper # {}
    /\ conn = db[srcDb]
    /\ static[outStatic] = static[srcDb]
    /\ \E paper \in TemplateRecords :
         LET r == ResolvePaperIdentity(conn.alias, paper)
         IN  /\ PaperExists(conn, r.paper_id)
             /\ [paper_id |-> r.paper_id,
                 template_tag |-> CanonicalTemplateTag(paper.prompt_template)]
                    \notin conn.summary


\* Every content hash of the rows that the tables c have and the tables base
\* do not have names a file of the directory st: md/<hash>.md,
\* pdf/<hash>.pdf and md_translate/<lang>/<hash>.md.
RecordedHashesStored(c, base, st) ==
    /\ \A p \in c.paper \ base.paper :
         /\ p.source_md_content_hash # HashBytes(0) =>
              \E f \in st.md : f.name = p.source_md_content_hash
         /\ p.pdf_content_hash # HashBytes(0) =>
              \E f \in st.pdf : f.name = p.pdf_content_hash
    /\ \A t \in c.translation \ base.translation :
         \E f \in st.md_translate : f.lang = t.lang /\ f.name = t.md_content_hash

\* C29: inside a pass, and in the output database after its commit, every
\* content hash of a paper or translation row that the pass has added to
\* the snapshot it started from names a file in the output static directory.
C29_RecordedHashesHaveFiles ==
    [][ /\ pc' \in {"update", "supplement"} =>
             RecordedHashesStored(conn', db'[srcDb'], static'[outStatic'])
        /\ (pc \in {"update", "supplement"} /\ Commit) =>
             RecordedHashesStored(db'[outDb], db[srcDb], static'[outStatic]) ]_vars

\* A pass has committed a paper with a PDF and a translation of a paper.
C29_Witness ==
    /\ pc = "idle"
    /\ looped
    /\ \E p \in db[outDb].paper : p.pdf_content_hash # HashBytes(0)
    /\ \E p \in db[outDb].paper : p.source_md_content_hash # HashBytes(0)
    /\ db[outDb].translation # {}


(***************************************************************************)
(* call_with_retries (extract.py), one iteration of its loop at a time.    *)
(* call holds the arguments; ret holds attempt and use_structured, the     *)
(* number of provider calls made, the delays slept, the outcome of the     *)
(* last provider call and, once done, what is returned or raised.          *)
(***************************************************************************)
MaxRetries == 3

StructuredModes == {"json_schema", "none"}

BackoffBases == {1, 2}

BackoffMaxima == {3}

\* What one call of the provider gives: a response text that parses as JSON
\* or not and validates against the schema or not, or a ProviderError.
Outcomes ==
    { [kind |-> "response", parses |-> TRUE, valid |-> TRUE,
       retryable |-> FALSE, structured_error |-> FALSE],
      [kind |-> "response", parses |-> TRUE, valid |-> FALSE,
       retryable |-> FALSE, structured_error |-> FALSE],
      [kind |-> "response", parses |-> FALSE, valid |-> FALSE,
       retryable |-> FALSE, structured_error |-> FALSE] }
    \cup [kind : {"error"}, parses : {FALSE}, valid : {FALSE},
          retryable : BOOLEAN, structured_error : BOOLEAN]

NoOutcome ==
    [kind |-> "none", parses |-> FALSE, valid |-> FALSE,
     retryable |-> FALSE, structured_error |-> FALSE]

\* Variant: the delay is not capped.
BackoffDelayUncapped(base, attempt, max_delay) ==
    base * Pow2(IF attempt - 1 > 0 THEN attempt - 1 ELSE 0)

\* backoff_delay
BackoffDelay(base, attempt, max_delay) ==
    LET delay == base * Pow2(IF attempt - 1 > 0 THEN attempt - 1 ELSE 0)
    IN  IF delay < max_delay THEN delay ELSE max_delay

Returns(outcome) == [kind |-> "data", error_type |-> ""]

Raises(error_type) == [kind |-> "ProviderError", error_type |-> error_type]

InitRetries ==
    /\ db = [l \in Locs |-> IF l = 1 THEN EmptyTables ELSE NoTables]
    /\ static = [l \in Locs |-> IF l = 1 THEN EmptyDir ELSE NoDir]
    /\ pc = "idle"
    /\ conn = NoTables
    /\ outDb = 1
    /\ outStatic = 1
    /\ srcDb = 1
    /\ written = {}
    /\ nrec = 0
    /\ looped = FALSE
    /\ passes = 0
    /\ NoWriters
    /\ \E structured_mode \in StructuredModes, max_retries \in 0..MaxRetries,
          base \in BackoffBases, max_delay \in BackoffMaxima :
         call = [fn |-> "call_with_retries", structured_mode |-> structured_mode,
                 max_retries |-> max_retries, backoff_base_seconds |-> base,
                 backoff_max_seconds |-> max_delay]
    /\ ret = [done |-> FALSE, value |-> [kind |-> "none", error_type |-> ""],
              attempt |-> 0, use_structured |-> call.structured_mode, calls |-> 0,
              slept |-> <<>>, outcome |-> NoOutcome]

\* `await asyncio.sleep(backoff_delay(...)); continue` in attempt `attempt`.
SleepAndContinue(r, attempt) ==
    [r EXCEPT !.slept = Append(@, BackoffDelay(call.backoff_base_seconds, attempt,
                                               call.backoff_max_seconds))]

\* One iteration of `while attempt < max_retries` with the outcome of its
\* provider call.
AttemptOf(outcome) ==
    LET attempt == ret.attempt + 1
        r == [ret EXCEPT !.attempt = attempt, !.calls = @ + 1, !.outcome = outcome]
    IN  /\ Pending("call_with_retries")
        /\ ret.attempt < call.max_retries
        /\ ret' =
             IF outcome.kind = "error"
             THEN IF outcome.structured_error /\ ret.use_structured # "none"
                  THEN [r EXCEPT !.use_structured = "none"]
                  ELSE IF outcome.retryable /\ attempt < call.max_retries
                  THEN SleepAndContinue(r, attempt)
                  ELSE [r EXCEPT !.done = TRUE, !.value = Raises("provider")]
             ELSE IF ~outcome.parses
             THEN IF attempt < call.max_retries
                  THEN SleepAndContinue(r, attempt)
                  ELSE [r EXCEPT !.done = TRUE, !.value = Raises("parse_error")]
             ELSE IF ~outcome.valid
             THEN IF attempt < call.max_retries
                  THEN SleepAndContinue(r, attempt)
                  ELSE [r EXCEPT !.done = TRUE, !.value = Raises("validation_error")]
             ELSE [r EXCEPT !.done = TRUE, !.value = Returns(outcome)]
        /\ UNCHANGED <<call, passVars, writerVars>>

Attempt == \E outcome \in Outcomes : AttemptOf(outcome)

\* The loop ends: raise ProviderError("Max retries exceeded").
Exhausted ==
    /\ Pending("call_with_retries")
    /\ ~(ret.attempt < call.max_retries)
    /\ ret' = [ret EXCEPT !.done = TRUE, !.value = Raises("max_retries")]
    /\ UNCHANGED <<call, passVars, writerVars>>

NextRetries == Attempt \/ Exhausted

\* The provider call returns or raises (it has a timeout), and the loop runs on.
SpecRetries == InitRetries /\ [][NextRetries]_vars /\ WF_vars(NextRetries)

\* min(base * 2^(attempt - 1), max)
CappedDelay(base, attempt, max_delay) ==
    Min({base * Pow2(attempt - 1), max_delay})

\* The outcome is a structured-output error met in a structured mode.
SwitchesMode(outcome, use_structured) ==
    outcome.kind = "error" /\ outcome.structured_error /\ use_structured # "none"

\* C30: call_with_retries makes one provider call per attempt and at most
\* max_retries of them, and it ends: with the data of a response that parsed
\* and passed validation, or with a ProviderError.  After a retryable
\* provider error, a parse failure or a validation failure it goes on only
\* when attempts remain, and then after a sleep of
\* min(base * 2^(attempt - 1), max); a provider error that is not retryable
\* is raised at once; a structured-output error in a structured mode sets
\* the mode to "none" for all later attempts, and its attempt is counted.
C30_RetriesBounded ==
    /\ [](call.fn = "call_with_retries" =>
            /\ ret.calls = ret.attempt
            /\ ret.calls <= call.max_retries
            /\ ret.done =>
                 /\ ret.value.kind \in {"data", "ProviderError"}
                 /\ ret.value.kind = "data" =>
                      (ret.outcome.kind = "response" /\ ret.outcome.parses
                          /\ ret.outcome.valid))
    /\ [][ call.fn = "call_with_retries" =>
             /\ ret'.attempt \in {ret.attempt, ret.attempt + 1}
             /\ (ret.use_structured = "none" => ret'.use_structured = "none")
             /\ (ret'.attempt = ret.attempt + 1) =>
                  LET outcome == ret'.outcome
                      failed == \/ outcome.kind = "error" /\ outcome.retryable
                                \/ outcome.kind = "response" /\ ~outcome.parses
                                \/ outcome.kind = "response" /\ ~outcome.valid
                  IN  IF SwitchesMode(outcome, ret.use_structured)
                      THEN ~ret'.done /\ ret'.use_structured = "none"
                      ELSE /\ ret'.use_structured = ret.use_structured
                           /\ (outcome.kind = "error" /\ ~outcome.retryable) =>
                                (ret'.done /\ ret'.value.kind = "ProviderError")
                           /\ failed =>
                                IF ret'.attempt < call.max_retries
                                THEN /\ ~ret'.done
                                     /\ ret'.slept =
                                          Append(ret.slept,
                                                 CappedDelay(call.backoff_base_seconds,
                                                             ret'.attempt,
                                                             call.backoff_max_seconds))
                                ELSE /\ ret'.done
                                     /\ ret'.value.kind = "ProviderError"
                                     /\ ret'.slept = ret.slept ]_vars
    /\ <>(call.fn = "call_with_retries" /\ ret.done)

\* The call gave up after max_retries attempts, one of which switched the
\* mode to "none" and one of which slept for the maximal delay.
C30_Witness ==
    /\ Returned("call_with_retries")
    /\ ret.value.kind = "ProviderError"
    /\ ret.attempt = call.max_retries
    /\ call.structured_mode # "none"
    /\ ret.use_structured = "none"
    /\ \E i \in 1..Len(ret.slept) :
         /\ ret.slept[i] = call.backoff_max_seconds
         /\ ret.slept[i] < call.backoff_base_seconds * Pow2(ret.attempt - 1)

====
